---- MODULE Spec2Model ----
(***************************************************************************)
(* StarField3D: the astrometric coordinate and distance pipeline.          *)
(*                                                                         *)
(*   distance-lookup.js   lookupDistanceSIMBAD, lookupDistanceCatalog,     *)
(*                        batchLookupSIMBAD                                *)
(*   coordinate-converter raDecToPixel                                     *)
(*   pixel-calibration.js getCalibratedPixel, setCalibratedPixel           *)
(*   data-entry.js        handleFormSubmit, generateVisualizationData      *)
(*   data-converter.js    calculateDistanceScaling, convertData            *)
(*                                                                         *)
(* JavaScript numbers are modelled in two ways.  Distances are exact       *)
(* rationals [n, d] (d > 0), with d = 0 standing for the IEEE specials     *)
(* NaN (0/0), +Infinity (1/0) and -Infinity (-1/0), and d = -1 for         *)
(* undefined.  The projection uses fixed-point integers: trigonometric     *)
(* values in units of 1/TrigUnit, angles in whole degrees, offsets in      *)
(* whole arcseconds and pixels in tenths of a pixel; every division        *)
(* truncates toward zero, which keeps the sign symmetry of IEEE division.  *)
(***************************************************************************)
EXTENDS Integers, Sequences, FiniteSets, TLC

VARIABLES
    \* ---- distance-lookup.js: batchLookupSIMBAD / lookupDistanceSIMBAD
    hipNumbers,   \* the argument of batchLookupSIMBAD
    delayMs,      \* the argument delayMs
    bl_pc,        \* position of the async function: idle, loop, fetch, text, delay, done
    bl_i,         \* index of the identifier the for-of loop is at
    inflight,     \* identifiers whose remote request has been issued and not completed
    results,      \* the Map built by batchLookupSIMBAD, as a function on the set of its keys
    issued,       \* history: one record per request issued, in issue order
    waited,       \* clock ticks since the last request completed (saturating)
    last,         \* history: the last completed lookupDistanceSIMBAD call
    calls,        \* history: every completed lookupDistanceSIMBAD call, in order
    \* ---- distance-lookup.js: lookupDistanceCatalog
    cat_in,       \* the call's arguments: hipNumber and the catalog entry found for it
    cat_out,      \* its return value, or NotCalled
    \* ---- coordinate-converter.js: raDecToPixel
    pj_in,        \* the call's arguments
    pj_out,       \* its return value, or NotCalled
    pj_aux,       \* history: the intermediate values of the call
    \* ---- data-entry.js generateVisualizationData / data-converter.js convertData
    sc_in,        \* the batch handed to the scaling code
    sc_out,       \* the visualization data it produced, or NotCalled
    \* ---- pixel-calibration.js and data-entry.js handleFormSubmit
    pixelCalibration,  \* the override table, label -> pixel
    fs_form,      \* the form, the window globals and the upload when submit is pressed
    fs_pc,        \* position of handleFormSubmit: idle, lookup, compress, done
    fs_stars,     \* the stars collected from the form
    fs_center,    \* centerRA and centerDec, or null
    fs_hipCoords, \* the Map batchLookupHIP returned
    fs_placed,    \* history: what the placement loop did with each collected star
    fs_lists,     \* the two lists the placement loop built: starsWithCoords and
                  \* starsOutsideBounds
    fs_out,       \* how the handler ended: an alert, a cancel, an error or the data
    \* ---- catalog.js: loadHIPCatalog, lookupHIP, lookupHIPFromSIMBAD, batchLookupHIP
    hipCatalog,   \* the module-level cache: null or the catalog loaded from the JSON file
    hb_in,        \* the call: batchLookupHIP(hipNumbers) or lookupHIP(hipNumber)
    hb_pc,        \* position: call, bload, loop, lload, rfetch, done
    hb_i,         \* index of the number the for-of loop is at
    hb_seen,      \* history: the sources consulted so far for the current number
    hb_results,   \* the Map built by batchLookupHIP
    hb_trace,     \* history: one record per number looked up: sources consulted, result
    hb_text,      \* history: the last response text lookupHIPFromSIMBAD received
    \* ---- data-entry.js: initDataEntry, addStarEntry, removeStarEntry, importFromCSV,
    \*      populateFormFromData
    starEntryCount,  \* the module-level counter
    se_pc,        \* off, loaded (module evaluated), ready (initDataEntry has run)
    se_entries,   \* the number of .star-entry elements in #stars-container
    se_pending,   \* the row counts of the imports awaiting their images in
                  \* populateFormFromData
    se_alert,     \* the last alert shown, "" for none
    \* ---- pixel-calibration.js: the object behind pixelCalibration and its callers
    calProto,     \* the prototype of the pixelCalibration object
    cal_pc,       \* off, on (the module's functions are being called directly)
    cal_calls,    \* history: the setCalibratedPixel and getCalibratedPixel calls made
    \* ---- data-entry.js: the frame parameters kept on window between the handlers
    window,       \* window.currentPixelScale, currentFOVWidthDeg, currentFOVHeightDeg
                  \* and whether window.initVisualization is installed
    fs_scale,     \* history: the scale the last handleFormSubmit settled on
    se_frames,    \* history: the frame parameters of the CSV files imported
    \* ---- main.js: initVisualization, loadStarData, createVolume, createImagePlane,
    \*      animate
    starData,     \* the module-level data: null or the data last supplied
    imagePlane,   \* the module-level reference to the front image plane, or null
    volumeGroup,  \* the data the volume in the scene was built from, or null
    animationRunning,  \* window.animationRunning
    vz_pc,        \* off, on (init() has run)
    vz_scene,     \* the image planes in the scene
    vz_stars,     \* the data the star objects in the scene were built from, or null
    vz_loops,     \* the number of requestAnimationFrame loops running
    vz_calls,     \* the initVisualization and loadStarData calls: data, position
    \* ---- data-entry.js: debounce, setupFormValidation
    timeout,      \* the closure's timeout: the id setTimeout last returned, 0 = undefined
    db_pc,        \* off, on (setupFormValidation has wrapped checkFormValidation)
    db_clock,     \* the time, in units of half the wait
    db_timers,    \* the browser's pending timers: id, due time, arguments of the call
    db_log        \* history: the calls of the wrapper and the invocations of func

lookupVars == <<hipNumbers, delayMs, bl_pc, bl_i, inflight, results, issued, waited, last,
               calls>>
catVars == <<cat_in, cat_out>>
projVars == <<pj_in, pj_out, pj_aux>>
scaleVars == <<sc_in, sc_out>>
formVars == <<pixelCalibration, fs_form, fs_pc, fs_stars, fs_center, fs_hipCoords, fs_placed,
             fs_lists, fs_out>>
hipVars == <<hipCatalog, hb_in, hb_pc, hb_i, hb_seen, hb_results, hb_trace, hb_text>>
entryVars == <<starEntryCount, se_pc, se_entries, se_pending, se_alert>>
calVars == <<calProto, cal_pc, cal_calls>>
winVars == <<window, fs_scale, se_frames>>
viewVars == <<starData, imagePlane, volumeGroup, animationRunning, vz_pc, vz_scene, vz_stars,
             vz_loops, vz_calls>>
debVars == <<timeout, db_pc, db_clock, db_timers, db_log>>

\* what the actions of one component leave unchanged
lookupOthers == <<catVars, projVars, scaleVars, formVars, hipVars, entryVars, calVars, winVars,
    viewVars,
    debVars>>
catOthers == <<lookupVars, projVars, scaleVars, formVars, hipVars, entryVars, calVars, winVars,
    viewVars,
    debVars>>
projOthers == <<lookupVars, catVars, scaleVars, formVars, hipVars, entryVars, calVars, winVars,
    viewVars,
    debVars>>
scaleOthers == <<lookupVars, catVars, projVars, formVars, hipVars, entryVars, calVars, winVars,
    viewVars,
    debVars>>
formOthers == <<lookupVars, catVars, projVars, scaleVars, hipVars, entryVars, calVars, winVars,
    viewVars,
    debVars>>
hipOthers == <<lookupVars, catVars, projVars, scaleVars, formVars, entryVars, calVars, winVars,
    viewVars,
    debVars>>
entryOthers == <<lookupVars, catVars, projVars, scaleVars, formVars, hipVars, calVars, winVars,
    viewVars,
    debVars>>
calOthers == <<lookupVars, catVars, projVars, scaleVars, formVars, hipVars, entryVars, winVars,
    viewVars,
    debVars>>
viewOthers == <<lookupVars, catVars, projVars, scaleVars, formVars, hipVars, entryVars, calVars,
    winVars,
    debVars>>
debOthers == <<lookupVars, catVars, projVars, scaleVars, formVars, hipVars, entryVars, calVars,
    winVars, viewVars>>

-----------------------------------------------------------------------------
(* Integer helpers *)

Abs(x) == IF x < 0 THEN -x ELSE x

Sign(x) == IF x < 0 THEN -1 ELSE IF x > 0 THEN 1 ELSE 0

Max2(a, b) == IF a >= b THEN a ELSE b

Min2(a, b) == IF a <= b THEN a ELSE b

RECURSIVE GCD(_, _)
GCD(a, b) == IF b = 0 THEN a ELSE GCD(b, a % b)

\* Division truncating toward zero (b # 0).
TDiv(a, b) == Sign(a) * Sign(b) * (Abs(a) \div Abs(b))

-----------------------------------------------------------------------------
(* JavaScript numbers as exact rationals *)

NaN == [n |-> 0, d |-> 0]

Undefined == [n |-> 0, d |-> -1]

IsNum(v) == v.d > 0

IsNaN(v) == v.d = 0 /\ v.n = 0

\* The rational n/d in lowest terms with a positive denominator; x/0 is an IEEE special.
Rat(n, d) ==
    IF d = 0 THEN [n |-> Sign(n), d |-> 0]
    ELSE LET g == GCD(Abs(n), Abs(d))
         IN  [n |-> Sign(d) * (n \div g), d |-> Abs(d) \div g]

\* a * b, reducing crosswise before multiplying.
RMul(a, b) ==
    IF ~IsNum(a) \/ ~IsNum(b) THEN
        IF IsNaN(a) \/ IsNaN(b) \/ a.n = 0 \/ b.n = 0 THEN NaN
        ELSE [n |-> Sign(a.n) * Sign(b.n), d |-> 0]
    ELSE LET g1 == GCD(Abs(a.n), b.d)
             g2 == GCD(Abs(b.n), a.d)
         IN  [n |-> (a.n \div g1) * (b.n \div g2), d |-> (a.d \div g2) * (b.d \div g1)]

\* a / b with the IEEE results for a zero divisor.
RDiv(a, b) ==
    IF ~IsNum(a) \/ ~IsNum(b) THEN NaN
    ELSE IF b.n = 0 THEN [n |-> Sign(a.n), d |-> 0]
    ELSE RMul(a, [n |-> Sign(b.n) * b.d, d |-> Abs(b.n)])

RAdd(a, b) ==
    IF ~IsNum(a) \/ ~IsNum(b) THEN NaN
    ELSE LET g == GCD(a.d, b.d)
         IN  Rat(a.n * (b.d \div g) + b.n * (a.d \div g), (a.d \div g) * b.d)

RSub(a, b) ==
    IF ~IsNum(a) \/ ~IsNum(b) THEN NaN
    ELSE LET g == GCD(a.d, b.d)
         IN  Rat(a.n * (b.d \div g) - b.n * (a.d \div g), (a.d \div g) * b.d)

\* an/ad < bn/bd for positive denominators, by whole parts and then by the
\* reciprocals of the fractional parts, so that no product is formed
RECURSIVE FracLt(_, _, _, _)
FracLt(an, ad, bn, bd) ==
    IF an \div ad # bn \div bd THEN an \div ad < bn \div bd
    ELSE IF bn % bd = 0 THEN FALSE
    ELSE IF an % ad = 0 THEN TRUE
    ELSE FracLt(bd, bn % bd, ad, an % ad)

\* a < b; every comparison with NaN is false.
RLt(a, b) ==
    CASE IsNaN(a) \/ IsNaN(b) \/ a.d < 0 \/ b.d < 0 -> FALSE
      [] ~IsNum(a) /\ ~IsNum(b) -> a.n < b.n
      [] ~IsNum(a) -> a.n < 0
      [] ~IsNum(b) -> b.n > 0
      [] OTHER -> FracLt(a.n, a.d, b.n, b.d)

RLe(a, b) == RLt(a, b) \/ (~IsNaN(a) /\ a = b)

\* Math.floor
RFloor(v) == IF IsNum(v) THEN [n |-> v.n \div v.d, d |-> 1] ELSE v

\* Math.min and Math.max of two numbers; NaN if either is NaN.
MathMin(a, b) == IF IsNaN(a) \/ IsNaN(b) THEN NaN ELSE IF RLt(b, a) THEN b ELSE a

MathMax(a, b) == IF IsNaN(a) \/ IsNaN(b) THEN NaN ELSE IF RLt(a, b) THEN b ELSE a

\* Math.min(...xs) and Math.max(...xs)
RECURSIVE MinOf(_)
MinOf(xs) == IF Len(xs) = 0 THEN [n |-> 1, d |-> 0] ELSE MathMin(Head(xs), MinOf(Tail(xs)))

RECURSIVE MaxOf(_)
MaxOf(xs) == IF Len(xs) = 0 THEN [n |-> -1, d |-> 0] ELSE MathMax(Head(xs), MaxOf(Tail(xs)))

\* JavaScript truthiness of a number or undefined.
Truthy(v) == v.d >= 0 /\ v.n # 0

Num(k) == [n |-> k, d |-> 1]

-----------------------------------------------------------------------------
(* distance-lookup.js *)

\* 1 parsec = 3.26156 light-years
LyPerPc == Rat(326156, 100000)

\* parseFloat on a string matched by [\d.]+ : the longest prefix digits[.digits];
\* NaN when that prefix holds no digit.
DigitVal == [c \in {"0", "1", "2", "3", "4", "5", "6", "7", "8", "9"} |->
                CASE c = "0" -> 0 [] c = "1" -> 1 [] c = "2" -> 2 [] c = "3" -> 3
                  [] c = "4" -> 4 [] c = "5" -> 5 [] c = "6" -> 6 [] c = "7" -> 7
                  [] c = "8" -> 8 [] c = "9" -> 9]

RECURSIVE DigitRun(_, _)
DigitRun(s, i) ==
    IF i > Len(s) \/ s[i] = "." THEN 0 ELSE 1 + DigitRun(s, i + 1)

RECURSIVE DigitsValue(_, _, _)
DigitsValue(s, i, k) ==
    IF k = 0 THEN 0 ELSE DigitsValue(s, i, k - 1) * 10 + DigitVal[s[i + k - 1]]

RECURSIVE Pow10(_)
Pow10(k) == IF k = 0 THEN 1 ELSE 10 * Pow10(k - 1)

parseFloat(s) ==
    LET ni == DigitRun(s, 1)
        dot == ni < Len(s) /\ s[ni + 1] = "."
        nf == IF dot THEN DigitRun(s, ni + 2) ELSE 0
    IN  IF ni + nf = 0 THEN NaN
        ELSE Rat(DigitsValue(s, 1, ni) * Pow10(nf) + DigitsValue(s, ni + 2, nf), Pow10(nf))

Null == [kind |-> "null"]

\* lookupDistanceSIMBAD after the response text has arrived.  resp.kind is "match"
\* (the text holds the Parallax pattern and resp.cap is what the group captured) or
\* "nomatch".
parseSIMBADDistance(resp) ==
    IF resp.kind = "match" THEN
        LET parallaxMas == parseFloat(resp.cap)
            parallaxArcsec == RDiv(parallaxMas, Num(1000))
        IN  IF RLt(Num(0), parallaxArcsec) THEN
                LET distancePc == RDiv(Num(1), parallaxArcsec)
                    distanceLy == RMul(distancePc, LyPerPc)
                IN  [kind |-> "dist", distanceLy |-> distanceLy, distancePc |-> distancePc,
                     parallax |-> parallaxArcsec]
            ELSE Null
    ELSE Null

\* A plausible slip: the catalog's milliarcseconds used as arcseconds.
lookupDistanceCatalogNoMas(entry) ==
    IF ~entry.present THEN Null
    ELSE IF Truthy(entry.parallax) /\ RLt(Num(0), entry.parallax) THEN
        LET parallaxArcsec == entry.parallax
            distancePc == RDiv(Num(1), parallaxArcsec)
            distanceLy == RMul(distancePc, LyPerPc)
        IN  [kind |-> "dist", distanceLy |-> distanceLy, distancePc |-> distancePc,
             parallax |-> parallaxArcsec]
    ELSE IF Truthy(entry.distancePc) THEN
        [kind |-> "dist", distanceLy |-> RMul(entry.distancePc, LyPerPc),
         distancePc |-> entry.distancePc, parallax |-> RDiv(Num(1), entry.distancePc)]
    ELSE Null

\* A plausible slip: the direct distance of the entry is never used.
lookupDistanceCatalogParallaxOnly(entry) ==
    IF ~entry.present THEN Null
    ELSE IF Truthy(entry.parallax) /\ RLt(Num(0), entry.parallax) THEN
        LET parallaxArcsec == RDiv(entry.parallax, Num(1000))
            distancePc == RDiv(Num(1), parallaxArcsec)
            distanceLy == RMul(distancePc, LyPerPc)
        IN  [kind |-> "dist", distanceLy |-> distanceLy, distancePc |-> distancePc,
             parallax |-> parallaxArcsec]
    ELSE Null

\* lookupDistanceCatalog; entry is catalog[hipNumber] as [present, parallax, distancePc].
lookupDistanceCatalog(entry) ==
    IF ~entry.present THEN Null
    ELSE IF Truthy(entry.parallax) /\ RLt(Num(0), entry.parallax) THEN
        LET parallaxArcsec == RDiv(entry.parallax, Num(1000))
            distancePc == RDiv(Num(1), parallaxArcsec)
            distanceLy == RMul(distancePc, LyPerPc)
        IN  [kind |-> "dist", distanceLy |-> distanceLy, distancePc |-> distancePc,
             parallax |-> parallaxArcsec]
    ELSE IF Truthy(entry.distancePc) THEN
        [kind |-> "dist", distanceLy |-> RMul(entry.distancePc, LyPerPc),
         distancePc |-> entry.distancePc, parallax |-> RDiv(Num(1), entry.distancePc)]
    ELSE Null

(* Inputs of the lookup model *)

MaxBatch == 2

MaxWait == 2

HipIds == {7, 9}

DelayChoices == 0..MaxWait

\* What the Parallax pattern's group ([\d.]+) can capture.
CapStrings ==
    { <<"5">>, <<"0">>, <<".">>, <<"2", "5">>, <<".", "5">>, <<"2", ".", "5">>,
      <<"0", ".", "0">>, <<"1", ".", "2", ".", "3">> }

Responses == {[kind |-> "match", cap |-> c] : c \in CapStrings} \cup {[kind |-> "nomatch"]}

CatalogEntries ==
    {[present |-> FALSE]} \cup
    {[present |-> TRUE, parallax |-> p, distancePc |-> q] :
        p \in {Undefined, Num(0), Num(-5), Num(25), Rat(5, 2)},
        q \in {Undefined, Num(0), Num(40), Num(-3)}}

BatchInputs == UNION {[1..k -> HipIds] : k \in 0..MaxBatch}

NotCalled == [kind |-> "notcalled"]

NoMap == [h \in {} |-> Null]

LookupInit ==
    /\ hipNumbers \in BatchInputs
    /\ delayMs \in DelayChoices
    /\ bl_pc = "loop"
    /\ bl_i = 1
    /\ inflight = {}
    /\ results = NoMap
    /\ issued = <<>>
    /\ waited = 0
    /\ last = NotCalled
    /\ calls = <<>>

LookupIdle ==
    /\ hipNumbers = <<>>
    /\ delayMs = 0
    /\ bl_pc = "idle"
    /\ bl_i = 1
    /\ inflight = {}
    /\ results = NoMap
    /\ issued = <<>>
    /\ waited = 0
    /\ last = NotCalled
    /\ calls = <<>>

CatInit ==
    /\ cat_in \in [kind : {"call"}, hip : HipIds, entry : CatalogEntries]
    /\ cat_out = NotCalled

CatIdle ==
    /\ cat_in = NotCalled
    /\ cat_out = NotCalled

\* results.set(hip, distance)
MapSet(m, k, v) == [x \in (DOMAIN m) \cup {k} |-> IF x = k THEN v ELSE m[x]]

\* setTimeout(resolve, delayMs) has fired once delayMs have passed since it was set.
DelayElapsedAtOnce(w, d) == TRUE

DelayElapsed(w, d) == w >= d

\* The for-of loop head and the call of lookupDistanceSIMBAD up to its first await:
\* the request for the next identifier is issued, or the loop ends and the Map is
\* returned.
BatchStep ==
    /\ bl_pc = "loop"
    /\ IF bl_i > Len(hipNumbers)
       THEN /\ bl_pc' = "done"
            /\ UNCHANGED <<inflight, issued>>
       ELSE /\ bl_pc' = "fetch"
            /\ inflight' = inflight \cup {hipNumbers[bl_i]}
            /\ issued' = Append(issued, [hip |-> hipNumbers[bl_i], waited |-> waited,
                                         busy |-> inflight # {}])
    /\ UNCHANGED <<hipNumbers, delayMs, bl_i, results, waited, last, calls, lookupOthers>>

\* A plausible slip: a failed lookup ends the batch.
AfterLookupAbort(resp, distance) ==
    LET hip == hipNumbers[bl_i]
    IN  /\ inflight' = inflight \ {hip}
        /\ results' = IF distance.kind = "dist" THEN MapSet(results, hip, distance)
                      ELSE results
        /\ last' = [kind |-> "called", hip |-> hip, resp |-> resp, out |-> distance]
        /\ calls' = Append(calls, [hip |-> hip, resp |-> resp, out |-> distance])
        /\ waited' = 0
        /\ IF distance.kind # "dist"
           THEN bl_pc' = "done" /\ bl_i' = bl_i
           ELSE IF delayMs > 0
           THEN bl_pc' = "delay" /\ bl_i' = bl_i
           ELSE bl_pc' = "loop" /\ bl_i' = bl_i + 1
        /\ UNCHANGED <<hipNumbers, delayMs, issued, lookupOthers>>

\* The rest of one loop iteration once lookupDistanceSIMBAD has returned distance.
AfterLookup(resp, distance) ==
    LET hip == hipNumbers[bl_i]
    IN  /\ inflight' = inflight \ {hip}
        /\ results' = IF distance.kind = "dist" THEN MapSet(results, hip, distance)
                      ELSE results
        /\ last' = [kind |-> "called", hip |-> hip, resp |-> resp, out |-> distance]
        /\ calls' = Append(calls, [hip |-> hip, resp |-> resp, out |-> distance])
        /\ waited' = 0
        /\ IF delayMs > 0
           THEN bl_pc' = "delay" /\ bl_i' = bl_i
           ELSE bl_pc' = "loop" /\ bl_i' = bl_i + 1
        /\ UNCHANGED <<hipNumbers, delayMs, issued, lookupOthers>>

\* await fetch(url) resolves with a response.
FetchResolves ==
    /\ bl_pc = "fetch"
    /\ bl_pc' = "text"
    /\ UNCHANGED <<hipNumbers, delayMs, bl_i, inflight, results, issued, waited, last,
                   calls, lookupOthers>>

\* await fetch(url) rejects: the catch block returns null.
FetchRejects ==
    /\ bl_pc = "fetch"
    /\ AfterLookup([kind |-> "fetchthrow"], Null)

\* await response.text() resolves; the text is matched and parsed.
TextResolves ==
    /\ bl_pc = "text"
    /\ \E resp \in Responses : AfterLookup(resp, parseSIMBADDistance(resp))

\* await response.text() rejects: the catch block returns null.
TextRejects ==
    /\ bl_pc = "text"
    /\ AfterLookup([kind |-> "textthrow"], Null)

\* The rate-limiting timer fires and the loop moves to the next identifier.
DelayFires ==
    /\ bl_pc = "delay"
    /\ DelayElapsed(waited, delayMs)
    /\ bl_pc' = "loop"
    /\ bl_i' = bl_i + 1
    /\ UNCHANGED <<hipNumbers, delayMs, inflight, results, issued, waited, last, calls,
                   lookupOthers>>

\* One millisecond passes.
Tick ==
    /\ bl_pc = "delay"
    /\ waited < MaxWait
    /\ waited' = waited + 1
    /\ UNCHANGED <<hipNumbers, delayMs, bl_pc, bl_i, inflight, results, issued, last,
                   calls, lookupOthers>>

\* A call lookupDistanceCatalog(hipNumber, catalog).
CatalogLookup ==
    /\ cat_in.kind = "call"
    /\ cat_out = NotCalled
    /\ cat_out' = lookupDistanceCatalog(cat_in.entry)
    /\ UNCHANGED <<cat_in, catOthers>>

-----------------------------------------------------------------------------
(* coordinate-converter.js: raDecToPixel in fixed point *)

\* Math.sin and Math.cos return values in units of 1/TrigUnit.
TrigUnit == 10000

\* 1 radian = 206265 arcseconds
ArcsecPerRadian == 206265

\* Pixel coordinates are kept in units of 1/PixelUnit pixel.
PixelUnit == 10

\* sin(d degrees) * TrigUnit for d = 0..90, rounded
SinTable ==
    << 0, 175, 349, 523, 698, 872, 1045, 1219, 1392, 1564,
       1736, 1908, 2079, 2250, 2419, 2588, 2756, 2924, 3090, 3256,
       3420, 3584, 3746, 3907, 4067, 4226, 4384, 4540, 4695, 4848,
       5000, 5150, 5299, 5446, 5592, 5736, 5878, 6018, 6157, 6293,
       6428, 6561, 6691, 6820, 6947, 7071, 7193, 7314, 7431, 7547,
       7660, 7771, 7880, 7986, 8090, 8192, 8290, 8387, 8480, 8572,
       8660, 8746, 8829, 8910, 8988, 9063, 9135, 9205, 9272, 9336,
       9397, 9455, 9511, 9563, 9613, 9659, 9703, 9744, 9781, 9816,
       9848, 9877, 9903, 9925, 9945, 9962, 9976, 9986, 9994, 9998,
       10000 >>

\* Math.sin(d * Math.PI / 180) for a whole number of degrees
SinDeg(d) ==
    LET m == d % 360
    IN  IF m <= 90 THEN SinTable[m + 1]
        ELSE IF m <= 180 THEN SinTable[180 - m + 1]
        ELSE IF m <= 270 THEN -SinTable[m - 180 + 1]
        ELSE -SinTable[360 - m + 1]

\* Math.cos(d * Math.PI / 180)
CosDeg(d) == SinDeg(d + 90)

\* a * b / c truncated toward zero (b, c > 0), without an oversized intermediate
MulDiv(a, b, c) ==
    Sign(a) * ((Abs(a) \div c) * b + ((Abs(a) % c) * b) \div c)

\* A plausible slip: the wrong constant in the wrap.
normalizeRaDiffHalfTurn(ra, centerRA) ==
    LET raDiff == ra - centerRA
        d1 == IF raDiff > 180 THEN raDiff - 180 ELSE raDiff
    IN  IF d1 < -180 THEN d1 + 180 ELSE d1

\* A plausible slip: the naive subtraction, without the wrap.
normalizeRaDiffNaive(ra, centerRA) == ra - centerRA

\* let raDiff = ra - centerRA, normalized
normalizeRaDiff(ra, centerRA) ==
    LET raDiff == ra - centerRA
        d1 == IF raDiff > 180 THEN raDiff - 360 ELSE raDiff
    IN  IF d1 < -180 THEN d1 + 360 ELSE d1

\* The gnomonic projection: the angular offsets in units of 1/TrigUnit radian, or
\* singular when |denominator| < 1e-10, which in fixed point is denominator = 0.
gnomonic(raDiff, dec, centerDec) ==
    LET cosDec == CosDeg(dec)
        sinDec == SinDeg(dec)
        cosCenterDec == CosDeg(centerDec)
        sinCenterDec == SinDeg(centerDec)
        A == TDiv(cosDec * CosDeg(raDiff), TrigUnit)
        denominator == TDiv(sinCenterDec * sinDec + cosCenterDec * A, TrigUnit)
    IN  IF denominator = 0 THEN [singular |-> TRUE, denominator |-> 0, xRad |-> 0, yRad |-> 0]
        ELSE [singular |-> FALSE,
              denominator |-> denominator,
              xRad |-> TDiv(-(cosDec * SinDeg(raDiff)), denominator),
              yRad |-> TDiv(cosCenterDec * sinDec - sinCenterDec * A, denominator)]

\* A plausible slip: the offset added to the image width instead of its half.
toPixelNoHalf(g, imageWidth, imageHeight, scale) ==
    LET xArcsec == MulDiv(g.xRad, ArcsecPerRadian, TrigUnit)
        yArcsec == MulDiv(g.yRad, ArcsecPerRadian, TrigUnit)
    IN  [x |-> PixelUnit * imageWidth + MulDiv(xArcsec, PixelUnit * scale.d, scale.n),
         y |-> PixelUnit * imageHeight - MulDiv(yArcsec, PixelUnit * scale.d, scale.n)]

\* radians to arcseconds to pixels: the raw pixel
toPixel(g, imageWidth, imageHeight, scale) ==
    LET xArcsec == MulDiv(g.xRad, ArcsecPerRadian, TrigUnit)
        yArcsec == MulDiv(g.yRad, ArcsecPerRadian, TrigUnit)
    IN  [x |-> (PixelUnit * imageWidth) \div 2 + MulDiv(xArcsec, PixelUnit * scale.d, scale.n),
         y |-> (PixelUnit * imageHeight) \div 2 - MulDiv(yArcsec, PixelUnit * scale.d, scale.n)]

\* margin = Math.max(imageWidth, imageHeight) * 0.2
marginOf(imageWidth, imageHeight) == (Max2(imageWidth, imageHeight) * PixelUnit * 2) \div 10

\* A plausible slip: the two axes joined by "and" instead of "or".
outOfBoundsBothAxes(p, imageWidth, imageHeight) ==
    LET margin == marginOf(imageWidth, imageHeight)
    IN  /\ (p.x < -margin \/ p.x > PixelUnit * imageWidth + margin)
        /\ (p.y < -margin \/ p.y > PixelUnit * imageHeight + margin)

\* the test that rejects a raw pixel too far outside the image
outOfBounds(p, imageWidth, imageHeight) ==
    LET margin == marginOf(imageWidth, imageHeight)
    IN  \/ p.x < -margin
        \/ p.x > PixelUnit * imageWidth + margin
        \/ p.y < -margin
        \/ p.y > PixelUnit * imageHeight + margin

\* A plausible slip: the raw pixel returned without clamping.
clampPixelNone(p, imageWidth, imageHeight) == [kind |-> "pixel", x |-> p.x, y |-> p.y]

\* Clamp to image bounds
clampPixel(p, imageWidth, imageHeight) ==
    [kind |-> "pixel",
     x |-> Max2(0, Min2(PixelUnit * imageWidth, p.x)),
     y |-> Max2(0, Min2(PixelUnit * imageHeight, p.y))]

\* The intermediate values of raDecToPixel.
raDecToPixelAux(ra, dec, centerRA, centerDec, imageWidth, imageHeight, scale) ==
    LET raDiff == normalizeRaDiff(ra, centerRA)
        g == gnomonic(raDiff, dec, centerDec)
        raw == IF g.singular THEN [x |-> 0, y |-> 0]
               ELSE toPixel(g, imageWidth, imageHeight, scale)
    IN  [raDiff |-> raDiff, singular |-> g.singular, denominator |-> g.denominator,
         rawX |-> raw.x, rawY |-> raw.y]

raDecToPixel(ra, dec, centerRA, centerDec, imageWidth, imageHeight, scale) ==
    LET raDiff == normalizeRaDiff(ra, centerRA)
        g == gnomonic(raDiff, dec, centerDec)
    IN  IF g.singular THEN Null
        ELSE LET raw == toPixel(g, imageWidth, imageHeight, scale)
             IN  IF outOfBounds(raw, imageWidth, imageHeight) THEN Null
                 ELSE clampPixel(raw, imageWidth, imageHeight)

(* Inputs of the projection model *)

RAs == {0, 1, 3, 90, 180, 181, 358, 359}

CenterRAs == {0, 1, 180, 359}

Decs == {-90, -1, 0, 1, 2, 90}

CenterDecs == {-90, 0, 1, 90}

ImageWidths == {2, 3, 4}

ImageHeights == {2, 6}

\* arcseconds per pixel
Scales == {Num(3599), Num(3600)}

ProjInputs ==
    [ra : RAs, dec : Decs, centerRA : CenterRAs, centerDec : CenterDecs,
     imageWidth : ImageWidths, imageHeight : ImageHeights, scale : Scales]

ProjInit ==
    /\ pj_in \in ProjInputs
    /\ pj_out = NotCalled
    /\ pj_aux = NotCalled

ProjIdle ==
    /\ pj_in = NotCalled
    /\ pj_out = NotCalled
    /\ pj_aux = NotCalled

\* A call raDecToPixel(ra, dec, centerRA, centerDec, imageWidth, imageHeight, scale).
Project ==
    /\ pj_out = NotCalled
    /\ pj_aux = NotCalled
    /\ pj_in \in ProjInputs
    /\ pj_out' = raDecToPixel(pj_in.ra, pj_in.dec, pj_in.centerRA, pj_in.centerDec,
                              pj_in.imageWidth, pj_in.imageHeight, pj_in.scale)
    /\ pj_aux' = raDecToPixelAux(pj_in.ra, pj_in.dec, pj_in.centerRA, pj_in.centerDec,
                                 pj_in.imageWidth, pj_in.imageHeight, pj_in.scale)
    /\ UNCHANGED <<pj_in, projOthers>>

-----------------------------------------------------------------------------
(* Distance scaling: generateVisualizationData (data-entry.js) and               *)
(* calculateDistanceScaling / convertData (data-converter.js)                    *)

\* Math.max(0, Math.min(1, x))
clamp01(x) == MathMax(Num(0), MathMin(Num(1), x))

\* Math.floor(minDistance / 10) * 10
frontOffsetOf(minDistance) == RMul(RFloor(RDiv(minDistance, Num(10))), Num(10))

\* stars.sort((a, b) => a.distanceLy - b.distanceLy): the stable ordering, nearest first
sortByDistance(xs) ==
    LET rank(i) == 1 + Cardinality({j \in 1..Len(xs) :
                        \/ RLt(xs[j].distanceLy, xs[i].distanceLy)
                        \/ (~RLt(xs[i].distanceLy, xs[j].distanceLy) /\ j < i)})
    IN  [r \in 1..Len(xs) |-> xs[CHOOSE i \in 1..Len(xs) : rank(i) = r]]

\* generateVisualizationData: the scaling parameters, the stars sorted nearest first
\* and their scaled distances.
generateVisualizationData(imageWidth, stars) ==
    LET distances == [i \in 1..Len(stars) |-> stars[i].distanceLy]
        minDistance == MinOf(distances)
        maxDistance == MaxOf(distances)
        frontOffset == frontOffsetOf(minDistance)
        distanceRange == RSub(maxDistance, frontOffset)
        sorted == sortByDistance(stars)
        volumeDepth == Num(imageWidth)
    IN  [kind |-> "data",
         volumeDepth |-> volumeDepth,
         scaling |-> [frontOffsetLy |-> frontOffset, maxDistanceLy |-> maxDistance,
                      distanceRangeLy |-> distanceRange],
         stars |-> [i \in 1..Len(sorted) |->
                      [sorted[i] EXCEPT !.scaledDistance =
                          clamp01(RDiv(RSub(sorted[i].distanceLy, frontOffset),
                                       distanceRange))]]]

\* calculateDistanceScaling(stars, volumeDepth)
calculateDistanceScaling(stars, volumeDepth) ==
    LET all == [i \in 1..Len(stars) |-> stars[i].distanceLy]
        distances == SelectSeq(all, LAMBDA d : RLt(Num(0), d))
    IN  IF Len(distances) = 0 THEN
            [frontOffset |-> Num(0), maxDistance |-> volumeDepth, scale |-> Num(1),
             distanceRange |-> Undefined]
        ELSE LET minDistance == MinOf(distances)
                 maxDistance == MaxOf(distances)
                 frontOffset == frontOffsetOf(minDistance)
                 distanceRange == RSub(maxDistance, frontOffset)
             IN  [frontOffset |-> frontOffset, maxDistance |-> maxDistance,
                  scale |-> RDiv(volumeDepth, distanceRange),
                  distanceRange |-> distanceRange]

\* const volumeDepth = 1920
ConverterVolumeDepth == 1920

\* a.magnitude || 999
MagOr999(star) == IF Truthy(star.magnitude) THEN star.magnitude ELSE Num(999)

\* starsWithDistances.sort((a, b) => magA - magB): the stable ordering
sortByMagnitude(xs) ==
    LET rank(i) == 1 + Cardinality({j \in 1..Len(xs) :
                        \/ RLt(MagOr999(xs[j]), MagOr999(xs[i]))
                        \/ (~RLt(MagOr999(xs[i]), MagOr999(xs[j])) /\ j < i)})
    IN  [r \in 1..Len(xs) |-> xs[CHOOSE i \in 1..Len(xs) : rank(i) = r]]

\* convertData from the distance Map on: distances added, stars without a distance
\* dropped, exit when none is left, sort by magnitude, scaling computed and applied.
convertData(stars, distanceMap) ==
    LET withDist == [i \in 1..Len(stars) |->
                        IF stars[i].hip # 0 /\ stars[i].hip \in DOMAIN distanceMap
                        THEN [stars[i] EXCEPT
                                !.distanceLy = distanceMap[stars[i].hip].distanceLy,
                                !.distancePc = distanceMap[stars[i].hip].distancePc]
                        ELSE stars[i]]
        starsWithDistances == SelectSeq(withDist, LAMBDA st : RLt(Num(0), st.distanceLy))
    IN  IF Len(starsWithDistances) = 0 THEN [kind |-> "exit"]
        ELSE LET sorted == sortByMagnitude(starsWithDistances)
                 volumeDepth == Num(ConverterVolumeDepth)
                 scaling == calculateDistanceScaling(sorted, volumeDepth)
             IN  [kind |-> "data",
                  volumeDepth |-> volumeDepth,
                  scaling |-> [frontOffsetLy |-> scaling.frontOffset,
                               maxDistanceLy |-> scaling.maxDistance,
                               distanceRangeLy |-> scaling.distanceRange],
                  stars |-> [i \in 1..Len(sorted) |->
                               [sorted[i] EXCEPT !.scaledDistance =
                                   clamp01(RDiv(RSub(sorted[i].distanceLy,
                                                     scaling.frontOffset),
                                                scaling.distanceRange))]]]

(* Inputs of the scaling model *)

MaxStars == 2

\* distances in parsecs typed into the form
PcChoices == {Num(0), Num(1), Rat(5, 2), Num(40), Num(-1)}

\* a star collected by handleFormSubmit: distanceLy = distancePc * 3.26156
FormStar(pc) ==
    [distancePc |-> pc, distanceLy |-> RMul(pc, LyPerPc), scaledDistance |-> Undefined]

WebBatches ==
    UNION {[1..k -> {FormStar(pc) : pc \in PcChoices}] : k \in 1..MaxStars}

\* parallaxes the remote catalog can report: 81.539 mas is 40 ly, 326.156 mas is 10 ly,
\* 25 mas is 130.4624 ly
ConverterCaps ==
    { <<"8", "1", ".", "5", "3", "9">>, <<"3", "2", "6", ".", "1", "5", "6">>,
      <<"2", "5">> }

\* the Maps batchLookupSIMBAD can return for these parallaxes
DistanceMaps ==
    UNION {[S -> {parseSIMBADDistance([kind |-> "match", cap |-> c]) : c \in ConverterCaps}] :
            S \in SUBSET HipIds}

\* a star as the parsers return it: hip (0 for none) and magnitude
ParsedStars ==
    {[hip |-> h, magnitude |-> m, distanceLy |-> Undefined, distancePc |-> Undefined,
      scaledDistance |-> Undefined] :
        h \in HipIds \cup {0}, m \in {NaN, Num(0), Num(2), Num(-1)}}

ConverterBatches == UNION {[1..k -> ParsedStars] : k \in 1..MaxStars}

\* distanceLy values of the stars handed to calculateDistanceScaling directly
ScalingDistances == {Undefined, Num(0), Num(-1), Num(40), Rat(5, 2)}

ScalingBatches ==
    UNION {[1..k -> {[distanceLy |-> d] : d \in ScalingDistances}] : k \in 0..MaxStars}

ScaleInit ==
    /\ sc_in \in [kind : {"web"}, imageWidth : ImageWidths, stars : WebBatches]
                \cup [kind : {"conv"}, stars : ConverterBatches, distanceMap : DistanceMaps]
                \cup [kind : {"scaling"}, stars : ScalingBatches]
    /\ sc_out = NotCalled

ScaleIdle ==
    /\ sc_in = NotCalled
    /\ sc_out = NotCalled

\* handleFormSubmit hands its placed stars to generateVisualizationData.
GenerateVisualization ==
    /\ sc_in.kind = "web"
    /\ sc_out = NotCalled
    /\ sc_out' = generateVisualizationData(sc_in.imageWidth, sc_in.stars)
    /\ UNCHANGED <<sc_in, scaleOthers>>

\* convertData continues after batchLookupSIMBAD has returned.
ConvertData ==
    /\ sc_in.kind = "conv"
    /\ sc_out = NotCalled
    /\ sc_out' = convertData(sc_in.stars, sc_in.distanceMap)
    /\ UNCHANGED <<sc_in, scaleOthers>>

-----------------------------------------------------------------------------
(* pixel-calibration.js and handleFormSubmit (data-entry.js).  In this part       *)
(* pixel coordinates are rationals in pixels; the projector's tenths are          *)
(* converted on return.                                                           *)

Pixel(x, y) == [kind |-> "pixel", x |-> x, y |-> y]

\* null held by a variable that otherwise holds a number
NullNum == [n |-> 0, d |-> -2]

\* a whole number of degrees for the fixed-point projector
Deg(v) == v.n \div v.d

\* const pixelCalibration = { 'Alpheratz': ..., 'A': ..., ..., 'G': ... }
CalibrationTable ==
    [l \in {"Alpheratz", "A", "B", "C", "D", "E", "F", "G"} |->
        CASE l = "Alpheratz" -> Pixel(Num(1977), Num(1287))
          [] l = "A" -> Pixel(Num(2064), Num(894))
          [] l = "B" -> Pixel(Num(2544), Num(903))
          [] l = "C" -> Pixel(Num(2832), Num(783))
          [] l = "D" -> Pixel(Num(732), Num(519))
          [] l = "E" -> Pixel(Num(2436), Num(2124))
          [] l = "F" -> Pixel(Num(2625), Num(2091))
          [] l = "G" -> Pixel(Num(3456), Num(579))]

\* Object.prototype, the prototype an object literal starts with
ObjectPrototype == [kind |-> "Object.prototype"]

\* some of the properties every object inherits from Object.prototype
ObjectPrototypeKeys == {"constructor", "toString", "valueOf", "hasOwnProperty"}

\* obj[key] of the object pixelCalibration: "__proto__" is the accessor that yields
\* the prototype; then the own properties; then the properties of the prototype,
\* which is Object.prototype or an { x, y } object that itself inherits from
\* Object.prototype; undefined when nothing is found.
readProperty(own, proto, key) ==
    IF key = "__proto__" THEN proto
    ELSE IF key \in DOMAIN own THEN own[key]
    ELSE IF proto # ObjectPrototype /\ key \in {"x", "y"} THEN proto[key]
    ELSE IF key \in ObjectPrototypeKeys THEN [kind |-> "function", name |-> key]
    ELSE Undefined

\* value || null: a number is falsy when 0 or NaN, undefined is falsy, an object
\* or a function is truthy
orNull(v) == IF "d" \in DOMAIN v /\ ~Truthy(v) THEN Null ELSE v

\* getCalibratedPixel on a given object
readCalibration(own, proto, starLabel) == orNull(readProperty(own, proto, starLabel))

\* return pixelCalibration[starLabel] || null
getCalibratedPixel(starLabel) == readCalibration(pixelCalibration, calProto, starLabel)

\* pixelCalibration[starLabel] = { x, y }: the own properties afterwards; the
\* assignment to "__proto__" goes to the accessor and creates no own property
ownAfterSet(own, starLabel, pixel) ==
    IF starLabel = "__proto__" THEN own ELSE MapSet(own, starLabel, pixel)

\* pixelCalibration[starLabel] = { x, y }: the prototype afterwards
protoAfterSet(proto, starLabel, pixel) == IF starLabel = "__proto__" THEN pixel ELSE proto

\* Object.keys(pixelCalibration).length > 0
hasCalibrations == DOMAIN pixelCalibration # {}

\* parseFloat(el.value) || 0
OrZero(v) == IF Truthy(v) THEN v ELSE Num(0)

\* parseFloat(decSignEl.value) || 1
OrOne(v) == IF Truthy(v) THEN v ELSE Num(1)

\* centerRA = (raHours + raMinutes / 60 + raSeconds / 3600) * 15
centerRAOf(c) ==
    RMul(RAdd(RAdd(OrZero(c.raHours), RDiv(OrZero(c.raMinutes), Num(60))),
              RDiv(OrZero(c.raSeconds), Num(3600))),
         Num(15))

\* centerDec = decSign * (decDegrees + decMinutes / 60 + decSeconds / 3600)
centerDecOf(c) ==
    RMul(OrOne(c.decSign),
         RAdd(RAdd(OrZero(c.decDegrees), RDiv(OrZero(c.decMinutes), Num(60))),
              RDiv(OrZero(c.decSeconds), Num(3600))))

\* isNaN(centerRA) || isNaN(centerDec) || centerRA < 0 || centerRA > 360 ||
\* centerDec < -90 || centerDec > 90
centerInvalid(centerRA, centerDec) ==
    \/ IsNaN(centerRA)
    \/ IsNaN(centerDec)
    \/ RLt(centerRA, Num(0))
    \/ RLt(Num(360), centerRA)
    \/ RLt(centerDec, Num(-90))
    \/ RLt(Num(90), centerDec)

\* The loop over .star-entry elements: an entry without a label, a HIP number or a
\* distance is skipped; dataset.pixelX/Y are copied when both are set.
collectStars(entries) ==
    LET valid == SelectSeq(entries, LAMBDA e :
                    ~(IsNaN(e.hip) \/ IsNaN(e.distancePc) \/ e.label = ""))
    IN  [i \in 1..Len(valid) |->
            LET e == valid[i]
                stored == e.pixelX # Undefined /\ e.pixelY # Undefined
            IN  [label |-> e.label, hip |-> e.hip, distancePc |-> e.distancePc,
                 distanceLy |-> RMul(e.distancePc, LyPerPc),
                 pixelX |-> IF stored THEN e.pixelX ELSE Undefined,
                 pixelY |-> IF stored THEN e.pixelY ELSE Undefined,
                 scaledDistance |-> Undefined]]

\* stars.filter(s => !s.pixelX || !s.pixelY)
needsLookup(s) == ~Truthy(s.pixelX) \/ ~Truthy(s.pixelY)

starsNeedingLookup(stars) == SelectSeq(stars, needsLookup)

\* (fovWidthDeg * 3600) / imageWidth
calculateScale(fovWidthDeg, imageWidth) == RDiv(RMul(fovWidthDeg, Num(3600)), imageWidth)

\* fovWidthDeg = 3.904; fovHeightDeg = 2.603
DefaultFovWidthDeg == Rat(3904, 1000)

DefaultFovHeightDeg == Rat(2603, 1000)

\* The scale handleFormSubmit settles on: window.currentPixelScale, else the average
\* of the two scales from the field of view when a star needs conversion, else null.
scaleOf(win, needing, imageWidth, imageHeight) ==
    IF Truthy(win.currentPixelScale) /\ ~IsNaN(win.currentPixelScale)
    THEN win.currentPixelScale
    ELSE IF needing > 0
    THEN LET fallback == ~Truthy(win.currentFOVWidthDeg) \/ ~Truthy(win.currentFOVHeightDeg)
             fovWidthDeg == IF fallback THEN DefaultFovWidthDeg ELSE win.currentFOVWidthDeg
             fovHeightDeg == IF fallback THEN DefaultFovHeightDeg ELSE win.currentFOVHeightDeg
             scaleX == calculateScale(fovWidthDeg, Num(imageWidth))
             scaleY == calculateScale(fovHeightDeg, Num(imageHeight))
         IN  RDiv(RAdd(scaleX, scaleY), Num(2))
    ELSE NullNum

\* A plausible slip: the override consulted before the stored coordinates.
choosePixelCalFirst(star, hipCoords, scale, centerRA, centerDec, imageWidth, imageHeight) ==
    IF getCalibratedPixel(star.label) # Null
    THEN [how |-> "calibration", pixel |-> getCalibratedPixel(star.label)]
    ELSE IF star.pixelX # Undefined /\ star.pixelY # Undefined
    THEN [how |-> "csv", pixel |-> Pixel(star.pixelX, star.pixelY)]
    ELSE [how |-> "nocoords", pixel |-> Null]

\* One iteration of the placement loop up to "if (pixel)": where the pixel comes from
\* (how) and the pixel, or null.  "nocoords", "noscale" and "nocenter" are the three
\* continue statements; "outside" is a null from raDecToPixel.  When raDecToPixel
\* was called, ra is the right ascension it was given.
choosePixel(star, hipCoords, scale, centerRA, centerDec, imageWidth, imageHeight) ==
    IF star.pixelX # Undefined /\ star.pixelY # Undefined
    THEN [how |-> "csv", pixel |-> Pixel(star.pixelX, star.pixelY)]
    ELSE IF getCalibratedPixel(star.label) # Null
    THEN [how |-> "calibration", pixel |-> getCalibratedPixel(star.label)]
    ELSE IF star.hip \notin DOMAIN hipCoords
    THEN [how |-> "nocoords", pixel |-> Null]
    ELSE LET coords == hipCoords[star.hip]
             raDeg == IF RLt(coords.ra, Num(24)) THEN RMul(coords.ra, Num(15))
                      ELSE coords.ra
         IN  IF scale = NullNum THEN [how |-> "noscale", pixel |-> Null]
             ELSE IF ~Truthy(centerRA) \/ ~Truthy(centerDec)
             THEN [how |-> "nocenter", pixel |-> Null]
             ELSE LET p == raDecToPixel(Deg(raDeg), Deg(coords.dec), Deg(centerRA),
                                        Deg(centerDec), imageWidth, imageHeight, scale)
                  IN  IF p = Null THEN [how |-> "outside", pixel |-> Null, ra |-> raDeg]
                      ELSE [how |-> "projected", ra |-> raDeg,
                            pixel |-> Pixel(Rat(p.x, PixelUnit), Rat(p.y, PixelUnit))]

\* starCoords?.ra || null
coordOrNull(hipCoords, hip, field) ==
    IF hip \in DOMAIN hipCoords /\ Truthy(hipCoords[hip][field])
    THEN hipCoords[hip][field] ELSE NullNum

\* starsWithCoords: the stars the loop found a pixel for, in form order
starsWithCoordsOf(stars, placed, hipCoords) ==
    LET idx == SelectSeq([i \in 1..Len(stars) |-> i], LAMBDA i : placed[i].pixel # Null)
    IN  [k \in 1..Len(idx) |->
            LET star == stars[idx[k]]
                pixel == placed[idx[k]].pixel
            IN  [label |-> star.label, hip |-> star.hip, distancePc |-> star.distancePc,
                 distanceLy |-> star.distanceLy, scaledDistance |-> star.scaledDistance,
                 ra |-> coordOrNull(hipCoords, star.hip, "ra"),
                 dec |-> coordOrNull(hipCoords, star.hip, "dec"),
                 pixelX |-> pixel.x, pixelY |-> pixel.y]]

\* A plausible slip: every star without a pixel is listed, the skipped ones too.
starsOutsideBoundsAllFailed(stars, placed) ==
    LET idx == SelectSeq([i \in 1..Len(stars) |-> i], LAMBDA i : placed[i].pixel = Null)
    IN  [k \in 1..Len(idx) |-> stars[idx[k]].label]

\* starsOutsideBounds: the labels of the stars that reached "if (pixel)" with a null
\* pixel, in form order; the three continue statements bypass it
starsOutsideBoundsOf(stars, placed) ==
    LET idx == SelectSeq([i \in 1..Len(stars) |-> i], LAMBDA i : placed[i].how = "outside")
    IN  [k \in 1..Len(idx) |-> stars[idx[k]].label]

\* alert(msg)
Alert(msg) == [kind |-> "alert", msg |-> msg]

\* A plausible slip: one star outside the image stops the whole submit.
submitOutcomeAllOrNothing(starsWithCoords, starsOutsideBounds, imageWidth, initVisualization) ==
    IF Len(starsWithCoords) = 0 \/ Len(starsOutsideBounds) > 0
    THEN Alert("Could not find pixel coordinates for any stars")
    ELSE [kind |-> "data",
          data |-> generateVisualizationData(imageWidth, starsWithCoords),
          shown |-> initVisualization]

\* The end of handleFormSubmit after the placement loop: the alert when no star was
\* placed, otherwise the data generated and handed to window.initVisualization when
\* that function is installed (shown).
submitOutcome(starsWithCoords, starsOutsideBounds, imageWidth, initVisualization) ==
    IF Len(starsWithCoords) = 0
    THEN Alert("Could not find pixel coordinates for any stars")
    ELSE [kind |-> "data",
          data |-> generateVisualizationData(imageWidth, starsWithCoords),
          shown |-> initVisualization]

(* Inputs of the form model *)

MaxEntries == 2

\* a .star-entry element: its fields as parseInt/parseFloat read them and the
\* pixel coordinates a CSV import stored in its dataset
Entry(label, hip, distancePc, pixelX, pixelY) ==
    [label |-> label, hip |-> hip, distancePc |-> distancePc, pixelX |-> pixelX,
     pixelY |-> pixelY]

EntryChoices ==
    { Entry("A", Num(7), Num(40), Undefined, Undefined),
      Entry("A", Num(7), Num(40), Num(1), Num(1)),
      Entry("Z", Num(9), Num(1), Undefined, Undefined),
      Entry("Z", Num(9), Num(1), Num(0), Num(1)),
      Entry("Y", Num(7), Rat(5, 2), Undefined, Undefined),
      Entry("", Num(9), Num(1), Undefined, Undefined) }

\* the center fields: absent from the page, 00h 04m 00s +01 00 00, all blank, 25h
Center(present, raHours, raMinutes, decSign, decDegrees) ==
    [present |-> present, raHours |-> raHours, raMinutes |-> raMinutes, raSeconds |-> NaN,
     decSign |-> decSign, decDegrees |-> decDegrees, decMinutes |-> NaN,
     decSeconds |-> NaN]

CenterChoices ==
    { Center(FALSE, NaN, NaN, NaN, NaN),
      Center(TRUE, Num(0), Num(4), Num(1), Num(1)),
      Center(TRUE, NaN, NaN, Num(1), NaN),
      Center(TRUE, Num(25), NaN, Num(-1), Num(1)) }

\* window.currentPixelScale, window.currentFOVWidthDeg, window.currentFOVHeightDeg
Window(pixelScale, fovWidthDeg, fovHeightDeg, initVisualization) ==
    [currentPixelScale |-> pixelScale, currentFOVWidthDeg |-> fovWidthDeg,
     currentFOVHeightDeg |-> fovHeightDeg, initVisualization |-> initVisualization]

WindowChoices ==
    { Window(Undefined, Undefined, Undefined, TRUE),
      Window(Num(3600), Undefined, Undefined, TRUE),
      Window(Undefined, Num(2), Num(2), TRUE),
      Window(Undefined, Undefined, Undefined, FALSE) }

FormInputs ==
    [imageFile : {TRUE},
     entries : UNION {[1..k -> EntryChoices] : k \in 1..MaxEntries},
     center : CenterChoices,
     window : WindowChoices]
    \cup
    [imageFile : {FALSE},
     entries : {<<Entry("A", Num(7), Num(40), Undefined, Undefined)>>},
     center : {Center(FALSE, NaN, NaN, NaN, NaN)},
     window : {Window(Undefined, Undefined, Undefined, TRUE)}]

\* what the catalog can hold for a HIP number: 359 deg, or 3 (read as hours)
HipCoordChoices == {[ra |-> Num(359), dec |-> Num(1)], [ra |-> Num(3), dec |-> Num(1)]}

\* the Maps batchLookupHIP can return for the numbers asked for
HipMaps(hips) == UNION {[S -> HipCoordChoices] : S \in SUBSET hips}

\* originalWidth and originalHeight of the uploaded image
FormImageSizes == {<<2, 2>>, <<4, 6>>}

\* labels and pixels setCalibratedPixel is called with
NewCalibrations == {[label |-> "Z", pixel |-> Pixel(Num(3), Num(4))]}

NoLists == [starsWithCoords |-> <<>>, starsOutsideBounds |-> <<>>]

MaxCalls == 3

\* labels and pixels the module's functions are called with directly
CalibrationPixels == {Pixel(Num(3), Num(4)), Pixel(Num(0), Num(5))}

SetCalls == [label : {"A", "Z", "__proto__"}, pixel : CalibrationPixels]

GetLabels == {"A", "B", "Z", "x", "__proto__"}

CalInit ==
    /\ calProto = ObjectPrototype
    /\ cal_pc = "on"
    /\ cal_calls = <<>>

CalIdle ==
    /\ calProto = ObjectPrototype
    /\ cal_pc = "off"
    /\ cal_calls = <<>>

FormInit ==
    /\ pixelCalibration = CalibrationTable
    /\ fs_form \in FormInputs
    /\ fs_pc = "idle"
    /\ fs_stars = <<>>
    /\ fs_center = [ra |-> NullNum, dec |-> NullNum]
    /\ fs_hipCoords = NoMap
    /\ fs_placed = <<>>
    /\ fs_lists = NoLists
    /\ fs_out = NotCalled
    /\ window = fs_form.window
    /\ fs_scale = NotCalled

FormIdle ==
    /\ pixelCalibration = CalibrationTable
    /\ fs_form = NotCalled
    /\ fs_pc = "off"
    /\ fs_stars = <<>>
    /\ fs_center = [ra |-> NullNum, dec |-> NullNum]
    /\ fs_hipCoords = NoMap
    /\ fs_placed = <<>>
    /\ fs_lists = NoLists
    /\ fs_out = NotCalled
    /\ window = Window(Undefined, Undefined, Undefined, TRUE)
    /\ fs_scale = NotCalled

\* setCalibratedPixel(starLabel, x, y), from the page or the console, before the
\* submit or while the handler awaits
SetCalibratedPixel ==
    /\ \/ fs_pc \in {"idle", "lookup", "compress"}
       \/ cal_pc = "on" /\ Len(cal_calls) < MaxCalls
    /\ \E c \in (IF cal_pc = "on" THEN SetCalls ELSE NewCalibrations) :
          /\ pixelCalibration' = ownAfterSet(pixelCalibration, c.label, c.pixel)
          /\ calProto' = protoAfterSet(calProto, c.label, c.pixel)
          /\ cal_calls' = IF cal_pc = "on"
                          THEN Append(cal_calls, [op |-> "set", label |-> c.label,
                                                  value |-> c.pixel])
                          ELSE cal_calls
    /\ UNCHANGED <<fs_form, fs_pc, fs_stars, fs_center, fs_hipCoords, fs_placed, fs_lists,
                   fs_out, cal_pc, lookupVars, catVars, projVars, scaleVars, hipVars,
                   entryVars, winVars, viewVars, debVars>>

\* getCalibratedPixel(starLabel) called directly; the value returned is recorded
GetCalibratedPixel ==
    /\ cal_pc = "on"
    /\ Len(cal_calls) < MaxCalls
    /\ \E l \in GetLabels :
          cal_calls' = Append(cal_calls, [op |-> "get", label |-> l,
                                          value |-> getCalibratedPixel(l)])
    /\ UNCHANGED <<calProto, cal_pc, formVars, calOthers>>

\* handleFormSubmit from the submit event to its first await (batchLookupHIP when a
\* star needs a lookup, compressImage otherwise) or to an early return.
SubmitStart ==
    /\ fs_pc = "idle"
    /\ LET stars == collectStars(fs_form.entries)
           needing == starsNeedingLookup(stars)
           centerRA == centerRAOf(fs_form.center)
           centerDec == centerDecOf(fs_form.center)
           stop == IF ~fs_form.imageFile THEN "Please upload an image file"
                   ELSE IF Len(stars) = 0 THEN "Please enter at least one valid star"
                   ELSE IF Len(needing) = 0 THEN ""
                   ELSE IF ~fs_form.center.present
                   THEN "center coordinate fields are not available"
                   ELSE IF centerInvalid(centerRA, centerDec)
                   THEN "please enter valid center coordinates"
                   ELSE ""
       IN  /\ fs_stars' = IF fs_form.imageFile THEN stars ELSE fs_stars
           /\ fs_center' = IF stop = "" /\ Len(needing) > 0
                           THEN [ra |-> centerRA, dec |-> centerDec] ELSE fs_center
           /\ fs_out' = IF stop = "" THEN fs_out ELSE Alert(stop)
           /\ fs_pc' = IF stop # "" THEN "done"
                       ELSE IF Len(needing) > 0 THEN "lookup" ELSE "compress"
    /\ UNCHANGED <<pixelCalibration, fs_form, fs_hipCoords, fs_placed, fs_lists, formOthers>>

\* batchLookupHIP resolves with a Map; when a star is missing from it the user
\* answers the confirm dialog.
LookupReturns ==
    /\ fs_pc = "lookup"
    /\ LET needing == starsNeedingLookup(fs_stars)
           hips == {needing[i].hip : i \in 1..Len(needing)}
       IN  \E m \in HipMaps(hips), proceed \in BOOLEAN :
              LET notFound == SelectSeq(needing, LAMBDA st : st.hip \notin DOMAIN m)
              IN  /\ Len(notFound) = 0 => proceed
                  /\ fs_hipCoords' = m
                  /\ fs_pc' = IF proceed THEN "compress" ELSE "done"
                  /\ fs_out' = IF proceed THEN fs_out ELSE [kind |-> "cancel"]
    /\ UNCHANGED <<pixelCalibration, fs_form, fs_stars, fs_center, fs_placed, fs_lists,
                   formOthers>>

\* compressImage resolves: the scale (recorded with the image size and the number of
\* files imported so far), the placement loop, then either the alert that
\* no star could be placed or generateVisualizationData and window.initVisualization.
CompressReturns ==
    /\ fs_pc = "compress"
    /\ \E size \in FormImageSizes :
          LET imageWidth == size[1]
              imageHeight == size[2]
              needing == starsNeedingLookup(fs_stars)
              scale == scaleOf(window, Len(needing), imageWidth, imageHeight)
              placed == [i \in 1..Len(fs_stars) |->
                            choosePixel(fs_stars[i], fs_hipCoords, scale, fs_center.ra,
                                        fs_center.dec, imageWidth, imageHeight)]
              starsWithCoords == starsWithCoordsOf(fs_stars, placed, fs_hipCoords)
              starsOutsideBounds == starsOutsideBoundsOf(fs_stars, placed)
          IN  /\ fs_placed' = placed
              /\ fs_lists' = [starsWithCoords |-> starsWithCoords,
                              starsOutsideBounds |-> starsOutsideBounds]
              /\ fs_out' = submitOutcome(starsWithCoords, starsOutsideBounds, imageWidth,
                                         window.initVisualization)
              /\ fs_scale' = [scale |-> scale, imageWidth |-> imageWidth,
                              imageHeight |-> imageHeight, imports |-> Len(se_frames)]
    /\ fs_pc' = "done"
    /\ UNCHANGED <<pixelCalibration, fs_form, fs_stars, fs_center, fs_hipCoords, window,
                   se_frames, lookupVars, catVars, projVars, scaleVars, hipVars, entryVars,
                   calVars, viewVars, debVars>>

\* compressImage rejects (the image cannot be read): the catch block reports it.
CompressRejects ==
    /\ fs_pc = "compress"
    /\ fs_pc' = "done"
    /\ fs_out' = [kind |-> "error"]
    /\ UNCHANGED <<pixelCalibration, fs_form, fs_stars, fs_center, fs_hipCoords, fs_placed,
                   fs_lists, formOthers>>

-----------------------------------------------------------------------------
(* catalog.js: loadHIPCatalog, lookupHIP, lookupHIPFromSIMBAD, batchLookupHIP,    *)
(* getMinimalHIPCatalog                                                           *)

Coords(ra, dec) == [kind |-> "coords", ra |-> ra, dec |-> dec]

\* getMinimalHIPCatalog()
getMinimalHIPCatalog ==
    [h \in {677, 544, 540, 502, 423, 971, 956, 410} |->
        CASE h = 677 -> Coords(Rat(1398, 10000), Rat(290905, 10000))
          [] h = 544 -> Coords(Rat(819, 10000), Rat(290247, 10000))
          [] h = 540 -> Coords(Rat(758, 10000), Rat(290136, 10000))
          [] h = 502 -> Coords(Rat(658, 10000), Rat(290056, 10000))
          [] h = 423 -> Coords(Rat(558, 10000), Rat(289945, 10000))
          [] h = 971 -> Coords(Rat(1738, 10000), Rat(291056, 10000))
          [] h = 956 -> Coords(Rat(1678, 10000), Rat(290945, 10000))
          [] h = 410 -> Coords(Rat(538, 10000), Rat(289835, 10000))]

\* the object read from the catalog file
Catalog(entries) == [kind |-> "catalog", entries |-> entries]

\* catalog[hipNumber] turned into { ra, dec }, or null
catalogEntry(catalog, hipNumber) ==
    IF hipNumber \in DOMAIN catalog.entries THEN catalog.entries[hipNumber] ELSE Null

\* A plausible slip: no second source after the loaded catalog.
batchFallbackNone(coords, hip, seen) == [out |-> coords, seen |-> seen]

\* batchLookupHIP after lookupHIP has returned coords: the minimal catalog is tried
\* when coords is null.
batchFallback(coords, hip, seen) ==
    IF coords # Null THEN [out |-> coords, seen |-> seen]
    ELSE [out |-> catalogEntry(Catalog(getMinimalHIPCatalog), hip),
          seen |-> Append(seen, "minimal")]

\* the branch of batchLookupHIP taken when the catalog failed to load: every number
\* is looked up in the minimal catalog only
minimalTrace(hips) ==
    [i \in 1..Len(hips) |->
        [hip |-> hips[i], seen |-> <<"minimal">>,
         out |-> catalogEntry(Catalog(getMinimalHIPCatalog), hips[i])]]

\* the Map holding the numbers of a trace that were found; a later record of the same
\* number replaces an earlier one
mapOfTrace(trace) ==
    [h \in {trace[i].hip : i \in {j \in 1..Len(trace) : trace[j].out # Null}} |->
        LET k == CHOOSE i \in 1..Len(trace) :
                    /\ trace[i].hip = h /\ trace[i].out # Null
                    /\ \A j \in (i + 1)..Len(trace) : ~(trace[j].hip = h /\ trace[j].out # Null)
        IN  trace[k].out]

(* Inputs of the catalog model *)

MaxHips == 2

\* 7 and 677 can be in the catalog file, 677 is in the minimal catalog, 5 is in neither
CatalogHipIds == {5, 7, 677}

\* what assets/hip-catalog.json can hold: an object, or a JSON value that is falsy (null)
CatalogFiles ==
    { Null,
      Catalog([h \in {} |-> Null]),
      Catalog([h \in {7} |-> Coords(Num(10), Num(20))]),
      Catalog([h \in {7, 677} |-> Coords(Num(2), Num(29))]) }

\* what lookupHIPFromSIMBAD can return: parsed coordinates or null
\* parseInt(s, 10) on a match of [+-]?\d+ .  "-0" parses to -0, which compares equal
\* to 0 and has the absolute value 0: it is the number 0 here.
parseInt10(s) ==
    LET signed == Len(s) > 0 /\ s[1] \in {"+", "-"}
        start == IF signed THEN 2 ELSE 1
        value == DigitsValue(s, start, Len(s) - start + 1)
    IN  IF signed /\ s[1] = "-" THEN Num(0 - value) ELSE Num(value)

\* Math.abs
MathAbs(v) == IF v.n < 0 THEN [n |-> 0 - v.n, d |-> v.d] ELSE v

\* h + m / 60 + s / 3600
sexagesimal(h, m, sec) == RAdd(RAdd(h, RDiv(m, Num(60))), RDiv(sec, Num(3600)))

\* lookupHIPFromSIMBAD after the response text has arrived.  text.kind is "match"
\* (both patterns match; text.ra and text.dec are the three groups each captured) or
\* "nomatch".
parseSIMBADCoords(text) ==
    IF text.kind = "match" THEN
        LET raHours == parseInt10(text.ra[1])
            raMinutes == parseInt10(text.ra[2])
            raSeconds == parseFloat(text.ra[3])
            ra == RMul(sexagesimal(raHours, raMinutes, raSeconds), Num(15))
            decDegrees == parseInt10(text.dec[1])
            decMinutes == parseInt10(text.dec[2])
            decSeconds == parseFloat(text.dec[3])
            decSign == IF RLt(decDegrees, Num(0)) THEN Num(-1) ELSE Num(1)
            dec == RMul(decSign, sexagesimal(MathAbs(decDegrees), decMinutes, decSeconds))
        IN  Coords(ra, dec)
    ELSE Null

\* response texts of the remote service: the groups of the two patterns, or no match
SimbadText(ra, dec) == [kind |-> "match", ra |-> ra, dec |-> dec]

RemoteTexts ==
    { SimbadText(<< <<"0", "2">>, <<"0", "0">>, <<"0", "0">> >>,
                 << <<"-", "0", "5">>, <<"0", "0">>, <<"0", "0">> >>),
      SimbadText(<< <<"0", "0">>, <<"0", "8">>, <<"2", "3", ".", "2", "6">> >>,
                 << <<"+", "2", "9">>, <<"0", "5">>, <<"2", "6", ".", "0">> >>),
      SimbadText(<< <<"0", "0">>, <<"0", "4">>, <<"0", "0">> >>,
                 << <<"-", "0", "0">>, <<"3", "0">>, <<"0", "0">> >>),
      SimbadText(<< <<"1", "2">>, <<"3", "0">>, <<"0", "0">> >>,
                 << <<"0", "0">>, <<"0", "0">>, <<"0", "0">> >>),
      [kind |-> "nomatch"] }

HipCalls ==
    [mode : {"batch"}, hipNumbers : UNION {[1..k -> CatalogHipIds] : k \in 0..MaxHips}]
    \cup [mode : {"single"}, hipNumbers : [1..1 -> CatalogHipIds]]

HipInit ==
    /\ hipCatalog \in CatalogFiles
    /\ hb_in \in HipCalls
    /\ hb_pc = "call"
    /\ hb_i = 1
    /\ hb_seen = <<>>
    /\ hb_results = NoMap
    /\ hb_trace = <<>>
    /\ hb_text = NotCalled

HipIdle ==
    /\ hipCatalog = Null
    /\ hb_in = NotCalled
    /\ hb_pc = "off"
    /\ hb_i = 1
    /\ hb_seen = <<>>
    /\ hb_results = NoMap
    /\ hb_trace = <<>>
    /\ hb_text = NotCalled

\* lookupHIP returns coords for the current number after consulting the sources in
\* seen: batchLookupHIP sets the Map (trying the minimal catalog first when coords is
\* null) and moves on; a direct call is over.
HipLookupReturns(coords, seen) ==
    LET hip == hb_in.hipNumbers[hb_i]
        fb == batchFallback(coords, hip, seen)
    IN  IF hb_in.mode = "batch"
        THEN /\ hb_trace' = Append(hb_trace, [hip |-> hip, seen |-> fb.seen, out |-> fb.out])
             /\ hb_results' = IF fb.out # Null THEN MapSet(hb_results, hip, fb.out)
                              ELSE hb_results
             /\ hb_i' = hb_i + 1
             /\ hb_pc' = "loop"
             /\ hb_seen' = <<>>
        ELSE /\ hb_trace' = Append(hb_trace, [hip |-> hip, seen |-> seen, out |-> coords])
             /\ hb_pc' = "done"
             /\ hb_seen' = seen
             /\ UNCHANGED <<hb_results, hb_i>>

\* lookupHIP from its call to its first pending await: with the catalog cached it
\* returns the entry at once, otherwise it waits for the catalog file.
HipLookupCalled ==
    IF hipCatalog # Null
    THEN HipLookupReturns(catalogEntry(hipCatalog, hb_in.hipNumbers[hb_i]), <<"local">>)
    ELSE /\ hb_pc' = "lload"
         /\ UNCHANGED <<hb_i, hb_seen, hb_results, hb_trace>>

\* batchLookupHIP is called: await loadHIPCatalog()
HipBatchStart ==
    /\ hb_pc = "call"
    /\ hb_in.mode = "batch"
    /\ hb_pc' = IF hipCatalog # Null THEN "loop" ELSE "bload"
    /\ UNCHANGED <<hipCatalog, hb_in, hb_i, hb_seen, hb_results, hb_trace, hb_text, hipOthers>>

\* batchLookupHIP once loadHIPCatalog has returned catalog
HipBatchLoaded(catalog) ==
    IF catalog = Null
    THEN /\ hb_trace' = minimalTrace(hb_in.hipNumbers)
         /\ hb_results' = mapOfTrace(minimalTrace(hb_in.hipNumbers))
         /\ hb_pc' = "done"
         /\ UNCHANGED <<hb_in, hb_i, hb_seen, hb_text, hipOthers>>
    ELSE /\ hb_pc' = "loop"
         /\ UNCHANGED <<hb_in, hb_i, hb_seen, hb_results, hb_trace, hb_text, hipOthers>>

\* The fetch of the catalog file and response.json() resolve inside loadHIPCatalog,
\* called by batchLookupHIP.
BatchLoadResolves ==
    /\ hb_pc = "bload"
    /\ \E file \in CatalogFiles :
          /\ hipCatalog' = file
          /\ HipBatchLoaded(file)

\* The fetch or response.json() rejects: loadHIPCatalog returns null.
BatchLoadRejects ==
    /\ hb_pc = "bload"
    /\ UNCHANGED hipCatalog
    /\ HipBatchLoaded(Null)

\* The for-of loop of batchLookupHIP: lookupHIP is called for the next number, or the
\* Map is returned.
HipLoopStep ==
    /\ hb_pc = "loop"
    /\ IF hb_i > Len(hb_in.hipNumbers)
       THEN /\ hb_pc' = "done"
            /\ UNCHANGED <<hb_i, hb_seen, hb_results, hb_trace>>
       ELSE HipLookupCalled
    /\ UNCHANGED <<hipCatalog, hb_in, hb_text, hipOthers>>

\* lookupHIP(hipNumber) is called directly.
HipSingleStart ==
    /\ hb_pc = "call"
    /\ hb_in.mode = "single"
    /\ HipLookupCalled
    /\ UNCHANGED <<hipCatalog, hb_in, hb_text, hipOthers>>

\* loadHIPCatalog, called by lookupHIP, gets the catalog file.
LookupLoadResolves ==
    /\ hb_pc = "lload"
    /\ \E file \in CatalogFiles :
          /\ hipCatalog' = file
          /\ IF file # Null
             THEN HipLookupReturns(catalogEntry(file, hb_in.hipNumbers[hb_i]), <<"local">>)
             ELSE /\ hb_pc' = "rfetch"
                  /\ UNCHANGED <<hb_i, hb_seen, hb_results, hb_trace>>
    /\ UNCHANGED <<hb_in, hb_text, hipOthers>>

\* loadHIPCatalog, called by lookupHIP, fails: lookupHIPFromSIMBAD is called.
LookupLoadRejects ==
    /\ hb_pc = "lload"
    /\ hb_pc' = "rfetch"
    /\ UNCHANGED <<hipCatalog, hb_in, hb_i, hb_seen, hb_results, hb_trace, hb_text, hipOthers>>

\* The remote service answers lookupHIPFromSIMBAD; the text is matched and parsed.
RemoteResolves ==
    /\ hb_pc = "rfetch"
    /\ \E text \in RemoteTexts :
          /\ hb_text' = text
          /\ HipLookupReturns(parseSIMBADCoords(text), <<"remote">>)
    /\ UNCHANGED <<hipCatalog, hb_in, hipOthers>>

\* The remote request throws: the catch block of lookupHIPFromSIMBAD returns null.
RemoteRejects ==
    /\ hb_pc = "rfetch"
    /\ HipLookupReturns(Null, <<"remote", "threw">>)
    /\ UNCHANGED <<hipCatalog, hb_in, hb_text, hipOthers>>

\* A call calculateDistanceScaling(stars, volumeDepth) with the converter's depth.
CalculateScaling ==
    /\ sc_in.kind = "scaling"
    /\ sc_out = NotCalled
    /\ sc_out' = [kind |-> "scaling",
                  scaling |-> calculateDistanceScaling(sc_in.stars, Num(ConverterVolumeDepth))]
    /\ UNCHANGED <<sc_in, scaleOthers>>

-----------------------------------------------------------------------------
(* data-entry.js: the star entries of the form: initDataEntry, addStarEntry,      *)
(* removeStarEntry, importFromCSV and populateFormFromData                        *)

\* if (starEntryCount >= 27)
MaxStarEntries == 27

\* imports that can await their images at the same time
MaxPending == 2

\* the numbers of valid star rows of the CSV files imported
CsvRowCounts == {1, 2, 27, 28}

RemoveAt(seq, i) == [k \in 1..(Len(seq) - 1) |-> IF k < i THEN seq[k] ELSE seq[k + 1]]

\* let starEntryCount = 0; the page's HTML holds the entry of the primary star
EntryInit ==
    /\ starEntryCount = 0
    /\ se_pc = "loaded"
    /\ se_entries = 1
    /\ se_pending = <<>>
    /\ se_alert = ""
    /\ se_frames = <<>>

EntryIdle ==
    /\ starEntryCount = 0
    /\ se_pc = "off"
    /\ se_entries = 0
    /\ se_pending = <<>>
    /\ se_alert = ""
    /\ se_frames = <<>>

\* initDataEntry(): starEntryCount = 1 and the buttons are wired
InitDataEntry ==
    /\ se_pc = "loaded"
    /\ se_pc' = "ready"
    /\ starEntryCount' = 1
    /\ UNCHANGED <<se_entries, se_pending, se_alert, entryOthers>>

\* addStarEntry(), the click handler of the add button
AddStarEntry ==
    /\ se_pc = "ready"
    /\ IF starEntryCount >= MaxStarEntries
       THEN /\ se_alert' = "Maximum of 27 stars allowed"
            /\ UNCHANGED <<starEntryCount, se_entries>>
       ELSE /\ se_entries' = se_entries + 1
            /\ starEntryCount' = starEntryCount + 1
            /\ UNCHANGED se_alert
    /\ UNCHANGED <<se_pc, se_pending, entryOthers>>

\* removeStarEntry(), the click handler of the remove button
RemoveStarEntry ==
    /\ se_pc = "ready"
    /\ IF starEntryCount <= 1
       THEN /\ se_alert' = "Must have at least one star"
            /\ UNCHANGED <<starEntryCount, se_entries>>
       ELSE IF se_entries > 0
       THEN /\ se_entries' = se_entries - 1
            /\ starEntryCount' = starEntryCount - 1
            /\ UNCHANGED se_alert
       ELSE UNCHANGED <<starEntryCount, se_entries, se_alert>>
    /\ UNCHANGED <<se_pc, se_pending, entryOthers>>

\* importFromCSV finds no valid star row: it alerts and the form is left alone.
ImportEmpty ==
    /\ se_pc = "ready"
    /\ se_alert' = "No valid stars found in CSV"
    /\ UNCHANGED <<starEntryCount, se_pc, se_entries, se_pending, entryOthers>>

\* the pixel scale and the field of view a CSV file gives: null for a column that is
\* absent or empty
Frame(pixelScale, fovWidthDeg, fovHeightDeg) ==
    [pixelScale |-> pixelScale, fovWidthDeg |-> fovWidthDeg, fovHeightDeg |-> fovHeightDeg]

NoFrame == Frame(NullNum, NullNum, NullNum)

FrameChoices == {Frame(Num(3600), NullNum, NullNum), Frame(NullNum, Num(2), Num(2)), NoFrame}

\* files imported before a submit
MaxImports == 2

\* v !== undefined && v !== null && !isNaN(v)
given(v) == v # Undefined /\ v # NullNum /\ ~IsNaN(v)

\* populateFormFromData: "Store pixel scale and FOV globally if provided"
storeFrame(w, data) ==
    [w EXCEPT
       !.currentPixelScale = IF given(data.pixelScale) THEN data.pixelScale ELSE @,
       !.currentFOVWidthDeg = IF given(data.fovWidthDeg) THEN data.fovWidthDeg ELSE @,
       !.currentFOVHeightDeg = IF given(data.fovHeightDeg) THEN data.fovHeightDeg ELSE @]

\* The frame parameters of the files imported: any of FrameChoices, at most
\* MaxImports files, while a form is being followed through its submit; none
\* otherwise.
FramesNow == IF fs_pc = "off" THEN {NoFrame} ELSE FrameChoices

MayImport == fs_pc = "off" \/ Len(se_frames) < MaxImports

\* What populateFormFromData(data) does to the window and to the history.
PopulateFrame(data) ==
    /\ window' = storeFrame(window, data)
    /\ se_frames' = IF fs_pc = "off" THEN se_frames ELSE Append(se_frames, data)
    /\ UNCHANGED <<fs_scale, lookupVars, catVars, projVars, scaleVars, formVars, hipVars,
                   calVars, viewVars, debVars>>

\* importFromCSV with rows valid star rows calls populateFormFromData, which clears
\* the container, resets the counter, stores the frame parameters and awaits the
\* images named in the file.
ImportStart ==
    /\ se_pc = "ready"
    /\ Len(se_pending) < MaxPending
    /\ MayImport
    /\ \E rows \in CsvRowCounts : se_pending' = Append(se_pending, rows)
    /\ \E data \in FramesNow : PopulateFrame(data)
    /\ se_entries' = 0
    /\ starEntryCount' = 0
    /\ UNCHANGED <<se_pc, se_alert>>

\* The same when the file names no image: nothing is awaited and one entry per star
\* is added at once.
ImportAtOnce ==
    /\ se_pc = "ready"
    /\ MayImport
    /\ \E rows \in CsvRowCounts :
          /\ se_entries' = rows
          /\ starEntryCount' = rows
    /\ \E data \in FramesNow : PopulateFrame(data)
    /\ UNCHANGED <<se_pc, se_pending, se_alert>>

\* The images of a pending import have loaded (or failed to): populateFormFromData
\* adds one entry per star.
ImportFinish ==
    /\ se_pc = "ready"
    /\ \E i \in 1..Len(se_pending) :
          /\ se_entries' = se_entries + se_pending[i]
          /\ starEntryCount' = starEntryCount + se_pending[i]
          /\ se_pending' = RemoveAt(se_pending, i)
    /\ UNCHANGED <<se_pc, se_alert, entryOthers>>

-----------------------------------------------------------------------------
(* main.js: init, initVisualization, loadStarData, createVolume, createImagePlane,  *)
(* createStarVisualizations, animate                                              *)

\* initVisualization calls followed
MaxInitCalls == 2

\* the data a form submit can hand over, and the data of assets/stars.json; none of
\* them names a back image
SubmittedData == {"first", "second"}

\* null where data is expected
NoData == "null"

\* a call that has reached its await in createImagePlane: the function, the data
\* whose image is being loaded, the position (fetch, plane, done, failed)
Call(fn, data, pc) == [fn |-> fn, data |-> data, pc |-> pc]

\* an image plane: the data whose image it shows and the call that made it
Plane(data, call) == [data |-> data, call |-> call]

\* if (imagePlane) scene.remove(imagePlane)
sceneWithout(scene, plane) == IF plane # Null THEN scene \ {plane} ELSE scene

\* After init(): the scene is empty and loadStarData awaits its fetch.
ViewInit ==
    /\ starData = NoData
    /\ imagePlane = Null
    /\ volumeGroup = NoData
    /\ animationRunning = FALSE
    /\ vz_pc = "on"
    /\ vz_scene = {}
    /\ vz_stars = NoData
    /\ vz_loops = 0
    /\ vz_calls = <<Call("load", NoData, "fetch")>>

ViewIdle ==
    /\ starData = NoData
    /\ imagePlane = Null
    /\ volumeGroup = NoData
    /\ animationRunning = FALSE
    /\ vz_pc = "off"
    /\ vz_scene = {}
    /\ vz_stars = NoData
    /\ vz_loops = 0
    /\ vz_calls = <<>>

InitCalls == SelectSeq(vz_calls, LAMBDA c : c.fn = "init")

\* initVisualization(data) up to the await in createImagePlane: the data is stored,
\* the old plane and stars are taken out of the scene, the volume is rebuilt and the
\* image of the data starts loading.
InitVisualization ==
    /\ vz_pc = "on"
    /\ Len(InitCalls) < MaxInitCalls
    /\ \E data \in SubmittedData :
          /\ starData' = data
          /\ volumeGroup' = data
          /\ vz_calls' = Append(vz_calls, Call("init", data, "plane"))
    /\ vz_scene' = sceneWithout(vz_scene, imagePlane)
    /\ vz_stars' = NoData
    /\ UNCHANGED <<imagePlane, animationRunning, vz_pc, vz_loops, viewOthers>>

\* loadStarData: the fetch of assets/stars.json and response.json() resolve with the
\* file's data; the volume is built and the image starts loading.
LoadDataArrives ==
    /\ vz_pc = "on"
    /\ vz_calls[1].pc = "fetch"
    /\ starData' = "file"
    /\ volumeGroup' = "file"
    /\ vz_scene' = sceneWithout(vz_scene, imagePlane)
    /\ vz_calls' = [vz_calls EXCEPT ![1] = Call("load", "file", "plane")]
    /\ UNCHANGED <<imagePlane, animationRunning, vz_pc, vz_stars, vz_loops, viewOthers>>

\* loadStarData: there is no file (response not ok) or the fetch rejects; the function
\* returns.
LoadDataMissing ==
    /\ vz_pc = "on"
    /\ vz_calls[1].pc = "fetch"
    /\ vz_calls' = [vz_calls EXCEPT ![1] = Call("load", NoData, "done")]
    /\ UNCHANGED <<starData, imagePlane, volumeGroup, animationRunning, vz_pc, vz_scene,
                   vz_stars, vz_loops, viewOthers>>

\* The texture of call c has loaded: createImagePlane stores the plane and adds it
\* to the scene, createStarVisualizations builds the stars of the current data, and
\* the animation loop is started: by initVisualization unless
\* window.animationRunning is set, by loadStarData in any case; animate sets the flag.
PlaneLoaded ==
    /\ vz_pc = "on"
    /\ \E c \in 1..Len(vz_calls) :
          /\ vz_calls[c].pc = "plane"
          /\ imagePlane' = Plane(vz_calls[c].data, c)
          /\ vz_scene' = vz_scene \cup {Plane(vz_calls[c].data, c)}
          /\ vz_loops' = IF vz_calls[c].fn = "init" /\ animationRunning THEN vz_loops
                         ELSE vz_loops + 1
          /\ vz_calls' = [vz_calls EXCEPT ![c].pc = "done"]
    /\ vz_stars' = starData
    /\ animationRunning' = TRUE
    /\ UNCHANGED <<starData, volumeGroup, vz_pc, viewOthers>>

\* The texture of call c fails to load: createImagePlane rejects and the call ends.
PlaneFails ==
    /\ vz_pc = "on"
    /\ \E c \in 1..Len(vz_calls) :
          /\ vz_calls[c].pc = "plane"
          /\ vz_calls' = [vz_calls EXCEPT ![c].pc = "failed"]
    /\ UNCHANGED <<starData, imagePlane, volumeGroup, animationRunning, vz_pc, vz_scene,
                   vz_stars, vz_loops, viewOthers>>

-----------------------------------------------------------------------------
(* data-entry.js: debounce, setupFormValidation                                   *)

\* calls of the debounced function followed
MaxDebounceCalls == 3

\* the time followed
MaxClock == 8

\* debounce(checkFormValidation, 150): the wait, in units of 75 ms
DebounceWait == 2

\* the arguments of a call: the input event
InputEvents == {"e1", "e2"}

\* a pending timer of setTimeout(later, wait): later keeps the arguments of its call
Timer(id, due, args) == [id |-> id, due |-> due, args |-> args]

\* A plausible slip: the earlier timer is left pending.
clearTimeoutForgotten(timers, id) == timers

\* clearTimeout(id): the timer of that id, if still pending, is dropped
clearTimeout(timers, id) == {t \in timers : t.id # id}

\* setTimeout(later, wait): a new timer, due wait after now
setTimeout(timers, id, now, wait, args) == timers \cup {Timer(id, now + wait, args)}

\* the timers whose time has come
dueTimers == {t \in db_timers : t.due <= db_clock}

\* an entry of the history
Event(kind, at, args) == [kind |-> kind, at |-> at, args |-> args]

\* After setupFormValidation: the wrapper exists, its timeout is undefined.
DebInit ==
    /\ timeout = 0
    /\ db_pc = "on"
    /\ db_clock = 0
    /\ db_timers = {}
    /\ db_log = <<>>

DebIdle ==
    /\ timeout = 0
    /\ db_pc = "off"
    /\ db_clock = 0
    /\ db_timers = {}
    /\ db_log = <<>>

\* the calls of the wrapper so far
DebouncedCalls == SelectSeq(db_log, LAMBDA e : e.kind = "call")

\* executedFunction(...args): an input event reaches the wrapper. The timer the
\* closure remembers is cleared and a new one is set. A timer task whose time has
\* come was queued before an event of the same instant, and runs first.
ExecutedFunction ==
    /\ db_pc = "on"
    /\ Len(DebouncedCalls) < MaxDebounceCalls
    /\ dueTimers = {}
    /\ \E args \in InputEvents :
          LET id == Len(DebouncedCalls) + 1
          IN  /\ db_timers' = setTimeout(clearTimeout(db_timers, timeout), id, db_clock,
                                         DebounceWait, args)
              /\ timeout' = id
              /\ db_log' = Append(db_log, Event("call", db_clock, args))
    /\ UNCHANGED <<db_pc, db_clock, debOthers>>

\* later(): a timer whose time has come fires: clearTimeout(timeout), then
\* func(...args) with the arguments of the call that set the timer.
Later ==
    /\ db_pc = "on"
    /\ \E t \in dueTimers :
          /\ db_timers' = clearTimeout(db_timers \ {t}, timeout)
          /\ db_log' = Append(db_log, Event("invoke", db_clock, t.args))
    /\ UNCHANGED <<timeout, db_pc, db_clock, debOthers>>

\* Time passes while no timer is due.
ClockAdvances ==
    /\ db_pc = "on"
    /\ db_clock < MaxClock
    /\ dueTimers = {}
    /\ db_clock' = db_clock + 1
    /\ UNCHANGED <<timeout, db_pc, db_timers, db_log, debOthers>>

-----------------------------------------------------------------------------
(* Specification of distance-lookup.js: either a batchLookupSIMBAD run or a     *)
(* lookupDistanceCatalog call.                                                  *)

InitLookup ==
    /\ \/ LookupInit /\ CatIdle
       \/ LookupIdle /\ CatInit
    /\ ProjIdle
    /\ ScaleIdle
    /\ FormIdle
    /\ HipIdle
    /\ EntryIdle
    /\ CalIdle
    /\ ViewIdle
    /\ DebIdle

NextLookup ==
    \/ BatchStep
    \/ FetchResolves
    \/ FetchRejects
    \/ TextResolves
    \/ TextRejects
    \/ DelayFires
    \/ Tick
    \/ CatalogLookup

vars == <<lookupVars, catVars, projVars, scaleVars, formVars, hipVars, entryVars, calVars,
          winVars,
          viewVars,
          debVars>>

SpecLookup == InitLookup /\ [][NextLookup]_vars

\* The same, with the scheduling the JavaScript runtime guarantees: the function's own
\* steps and its timer run when they can.  Nothing is assumed of the remote service:
\* a request may stay unanswered forever.
LookupFairness == WF_vars(BatchStep) /\ WF_vars(DelayFires) /\ WF_vars(Tick)

SpecLookupLive == InitLookup /\ [][NextLookup]_vars /\ LookupFairness

(* Specification of coordinate-converter.js: one raDecToPixel call. *)

InitProj ==
    LookupIdle /\ CatIdle /\ ProjInit /\ ScaleIdle /\ FormIdle /\ HipIdle /\ EntryIdle /\
    CalIdle /\
    ViewIdle /\
    DebIdle

NextProj == Project

SpecProj == InitProj /\ [][NextProj]_vars

(* Specification of the distance scaling: one batch through the web form's         *)
(* generateVisualizationData or through the converter's convertData.               *)

InitScale ==
    LookupIdle /\ CatIdle /\ ProjIdle /\ ScaleInit /\ FormIdle /\ HipIdle /\ EntryIdle /\
    CalIdle /\
    ViewIdle /\
    DebIdle

NextScale ==
    \/ GenerateVisualization
    \/ ConvertData
    \/ CalculateScaling

SpecScale == InitScale /\ [][NextScale]_vars

(* Specification of the web form: one submit through handleFormSubmit, with      *)
(* setCalibratedPixel calls around it.                                            *)

InitForm ==
    LookupIdle /\ CatIdle /\ ProjIdle /\ ScaleIdle /\ FormInit /\ HipIdle /\ EntryIdle /\
    CalIdle /\
    ViewIdle /\
    DebIdle

NextForm ==
    \/ SetCalibratedPixel
    \/ SubmitStart
    \/ LookupReturns
    \/ CompressReturns
    \/ CompressRejects

SpecForm == InitForm /\ [][NextForm]_vars

(* Specification of pixel-calibration.js: setCalibratedPixel and getCalibratedPixel  *)
(* called in any order on the module's table.                                     *)

InitCal ==
    LookupIdle /\ CatIdle /\ ProjIdle /\ ScaleIdle /\ FormIdle /\ HipIdle /\ EntryIdle /\
    CalInit /\
    ViewIdle /\
    DebIdle

NextCal ==
    \/ SetCalibratedPixel
    \/ GetCalibratedPixel

SpecCal == InitCal /\ [][NextCal]_vars

(* Specification of the frame parameters: CSV files are imported, and a form with   *)
(* one star that needs projection is submitted.                                   *)

FrameForms ==
    [imageFile : {TRUE},
     entries : {<<Entry("Y", Num(7), Rat(5, 2), Undefined, Undefined)>>},
     center : {Center(TRUE, Num(0), Num(4), Num(1), Num(1))},
     window : {Window(Undefined, Undefined, Undefined, TRUE)}]

InitFrame ==
    /\ LookupIdle /\ CatIdle /\ ProjIdle /\ ScaleIdle /\ HipIdle /\ CalIdle
    /\ FormInit
    /\ fs_form \in FrameForms
    /\ EntryInit
    /\ ViewIdle
    /\ DebIdle

NextFrame ==
    \/ InitDataEntry
    \/ ImportStart
    \/ ImportAtOnce
    \/ ImportFinish
    \/ SubmitStart
    \/ LookupReturns
    \/ CompressReturns
    \/ CompressRejects

SpecFrame == InitFrame /\ [][NextFrame]_vars

(* Specification of main.js: after init(), initVisualization calls while            *)
(* loadStarData and earlier calls await.                                          *)

InitView ==
    LookupIdle /\ CatIdle /\ ProjIdle /\ ScaleIdle /\ FormIdle /\ HipIdle /\ EntryIdle /\
    CalIdle /\
    ViewInit /\
    DebIdle

NextView ==
    \/ InitVisualization
    \/ LoadDataArrives
    \/ LoadDataMissing
    \/ PlaneLoaded
    \/ PlaneFails

SpecView == InitView /\ [][NextView]_vars

(* Specification of debounce: input events reach the debounced checkFormValidation *)
(* while time passes.                                                             *)

InitDebounce ==
    LookupIdle /\ CatIdle /\ ProjIdle /\ ScaleIdle /\ FormIdle /\ HipIdle /\ EntryIdle /\
    CalIdle /\
    ViewIdle /\
    DebInit

NextDebounce ==
    \/ ExecutedFunction
    \/ Later
    \/ ClockAdvances

SpecDebounce == InitDebounce /\ [][NextDebounce]_vars

(* Specification of catalog.js: one batchLookupHIP run or one lookupHIP call, with  *)
(* the catalog file already cached or not.                                         *)

InitHip ==
    LookupIdle /\ CatIdle /\ ProjIdle /\ ScaleIdle /\ FormIdle /\ HipInit /\ EntryIdle /\
    CalIdle /\
    ViewIdle /\
    DebIdle

NextHip ==
    \/ HipBatchStart
    \/ BatchLoadResolves
    \/ BatchLoadRejects
    \/ HipLoopStep
    \/ HipSingleStart
    \/ LookupLoadResolves
    \/ LookupLoadRejects
    \/ RemoteResolves
    \/ RemoteRejects

SpecHip == InitHip /\ [][NextHip]_vars

(* Specification of the star entries of the form: the page is initialized, then     *)
(* stars are added, removed and imported.                                          *)

InitEntries ==
    LookupIdle /\ CatIdle /\ ProjIdle /\ ScaleIdle /\ FormIdle /\ HipIdle /\ EntryInit /\
    CalIdle /\
    ViewIdle /\
    DebIdle

NextEntries ==
    \/ InitDataEntry
    \/ AddStarEntry
    \/ RemoveStarEntry
    \/ ImportEmpty
    \/ ImportStart
    \/ ImportAtOnce
    \/ ImportFinish

SpecEntries == InitEntries /\ [][NextEntries]_vars

-----------------------------------------------------------------------------
(* Claims *)

\* What C1 says a lookup returns for a parallax of p milliarcseconds.
ExpectedDistance(p) ==
    [kind |-> "dist",
     distancePc |-> RDiv(Num(1000), p),
     distanceLy |-> RMul(RDiv(Num(1000), p), Rat(326156, 100000)),
     parallax |-> RDiv(p, Num(1000))]

\* C1: for every parallax p > 0 in milliarcseconds, lookupDistanceSIMBAD and
\* lookupDistanceCatalog return distancePc = 1000/p, distanceLy = distancePc * 3.26156
\* and parallax = p/1000 arcseconds.
C1_ParallaxDistance ==
    /\ (/\ last.kind = "called"
        /\ last.resp.kind = "match"
        /\ RLt(Num(0), parseFloat(last.resp.cap)))
       => last.out = ExpectedDistance(parseFloat(last.resp.cap))
    /\ (/\ cat_out # NotCalled
        /\ cat_in.entry.present
        /\ RLt(Num(0), cat_in.entry.parallax))
       => cat_out = ExpectedDistance(cat_in.entry.parallax)

\* C1 witness: a remote lookup has parsed the parallax 2.5 mas and returned 400 pc.
C1_Witness ==
    /\ last.kind = "called"
    /\ last.resp.kind = "match"
    /\ parseFloat(last.resp.cap) = Rat(5, 2)
    /\ last.out.kind = "dist"
    /\ last.out.distancePc = Num(400)

\* C10: batchLookupSIMBAD issues its requests one at a time in input order; a request
\* is issued only when no other is in flight and, after the first, only when delayMs
\* have passed since the previous one completed.
C10_SequentialRequests ==
    /\ Cardinality(inflight) <= 1
    /\ Len(issued) <= Len(hipNumbers)
    /\ \A k \in 1..Len(issued) :
        /\ issued[k].hip = hipNumbers[k]
        /\ ~issued[k].busy
        /\ k > 1 => issued[k].waited >= delayMs

\* C10 witness: a second request has been issued under a positive delay.
C10_Witness ==
    /\ Len(issued) = 2
    /\ delayMs > 0
    /\ inflight # {}

ProjCalled == pj_out.kind # "notcalled"

\* C5 as stated: for every image width and height, a raw pixel with X = 1.5 * width is
\* rejected (null), never clamped.
C5_Original ==
    (/\ ProjCalled
     /\ ~pj_aux.singular
     /\ 2 * pj_aux.rawX = 3 * PixelUnit * pj_in.imageWidth)
    => pj_out = Null

\* C5 amended: for every image whose height is less than 2.5 times its width (so that
\* the margin max(width, height) * 0.2 is less than width / 2), a raw pixel with
\* X = 1.5 * width is rejected (null), never clamped.
C5_RejectedBeyondMargin ==
    (/\ ProjCalled
     /\ ~pj_aux.singular
     /\ 2 * pj_aux.rawX = 3 * PixelUnit * pj_in.imageWidth
     /\ 2 * pj_in.imageHeight < 5 * pj_in.imageWidth)
    => pj_out = Null

\* C5 witness: a raw pixel at 1.5 * width of a square image has been rejected.
C5_Witness ==
    /\ ProjCalled
    /\ ~pj_aux.singular
    /\ 2 * pj_aux.rawX = 3 * PixelUnit * pj_in.imageWidth
    /\ pj_in.imageHeight = pj_in.imageWidth
    /\ pj_out = Null

\* v lies outside [-margin, dim + margin], with margin = max(width, height) * 0.2
OutsideMargin(v, dim, width, height) ==
    \/ 10 * v < -(2 * PixelUnit * Max2(width, height))
    \/ 10 * v > 10 * PixelUnit * dim + 2 * PixelUnit * Max2(width, height)

\* C6: for a non-singular projection raDecToPixel returns null exactly when the raw
\* pixel lies outside [-margin, dimension + margin] on either axis, and every non-null
\* result satisfies 0 <= x <= width and 0 <= y <= height.
C6_NullIffOutsideMargin ==
    (ProjCalled /\ ~pj_aux.singular) =>
        /\ pj_out = Null <=>
              \/ OutsideMargin(pj_aux.rawX, pj_in.imageWidth, pj_in.imageWidth,
                               pj_in.imageHeight)
              \/ OutsideMargin(pj_aux.rawY, pj_in.imageHeight, pj_in.imageWidth,
                               pj_in.imageHeight)
        /\ pj_out # Null =>
              /\ pj_out.kind = "pixel"
              /\ 0 <= pj_out.x /\ pj_out.x <= PixelUnit * pj_in.imageWidth
              /\ 0 <= pj_out.y /\ pj_out.y <= PixelUnit * pj_in.imageHeight

\* C6 witness: a raw pixel right of the image but inside the margin was clamped to
\* the image edge.
C6_Witness ==
    /\ ProjCalled
    /\ ~pj_aux.singular
    /\ pj_aux.rawX > PixelUnit * pj_in.imageWidth
    /\ pj_out.kind = "pixel"
    /\ pj_out.x = PixelUnit * pj_in.imageWidth

\* C7: projecting RA = centerRA, Dec = centerDec yields the pixel (width/2, height/2).
C7_CenterMapsToCenter ==
    (ProjCalled /\ pj_in.ra = pj_in.centerRA /\ pj_in.dec = pj_in.centerDec) =>
        /\ pj_out.kind = "pixel"
        /\ 2 * pj_out.x = PixelUnit * pj_in.imageWidth
        /\ 2 * pj_out.y = PixelUnit * pj_in.imageHeight

\* C7 witness: the center of a frame of odd width, off the equator, was projected.
C7_Witness ==
    /\ ProjCalled
    /\ pj_in.ra = pj_in.centerRA
    /\ pj_in.dec = pj_in.centerDec
    /\ pj_in.centerDec = 1
    /\ pj_in.imageWidth = 3
    /\ pj_out.kind = "pixel"

\* C8 as stated: for RA and centerRA in [0, 360) the normalized RA difference lies in
\* (-180, 180] and is congruent to RA - centerRA modulo 360.
C8_Original ==
    ProjCalled =>
        /\ -180 < pj_aux.raDiff /\ pj_aux.raDiff <= 180
        /\ (pj_aux.raDiff - (pj_in.ra - pj_in.centerRA)) % 360 = 0

\* C8 amended: for RA and centerRA in [0, 360) the normalized RA difference lies in
\* the closed interval [-180, 180] (a difference of exactly -180 is kept) and is
\* congruent to RA - centerRA modulo 360.
C8_RaDiffNormalized ==
    ProjCalled =>
        /\ -180 <= pj_aux.raDiff /\ pj_aux.raDiff <= 180
        /\ (pj_aux.raDiff - (pj_in.ra - pj_in.centerRA)) % 360 = 0

\* C8 witness: a difference of 358 degrees was wrapped to -2.
C8_Witness ==
    /\ ProjCalled
    /\ pj_in.ra - pj_in.centerRA = 358
    /\ pj_aux.raDiff = -2

\* The call of the state with RA mirrored about centerRA.
MirrorCall ==
    raDecToPixel((2 * pj_in.centerRA - pj_in.ra) % 360, pj_in.dec, pj_in.centerRA,
                 pj_in.centerDec, pj_in.imageWidth, pj_in.imageHeight, pj_in.scale)

\* C9: with centerRA = 1, RA = 359 and RA = 3 get the differences -2 and +2; objects at
\* centerRA - d and centerRA + d are both rejected or both placed, with X offsets from
\* width/2 of equal magnitude and opposite sign and with equal Y.
C9_WraparoundSymmetry ==
    ProjCalled =>
        /\ (pj_in.centerRA = 1 /\ pj_in.ra = 359) => pj_aux.raDiff = -2
        /\ (pj_in.centerRA = 1 /\ pj_in.ra = 3) => pj_aux.raDiff = 2
        /\ pj_out.kind = MirrorCall.kind
        /\ pj_out.kind = "pixel" =>
              /\ 2 * pj_out.x - PixelUnit * pj_in.imageWidth
                    = -(2 * MirrorCall.x - PixelUnit * pj_in.imageWidth)
              /\ pj_out.y = MirrorCall.y

\* C9 witness: RA = 359 about centerRA = 1 was placed right of the image center.
C9_Witness ==
    /\ ProjCalled
    /\ pj_in.centerRA = 1
    /\ pj_in.ra = 359
    /\ pj_out.kind = "pixel"
    /\ 2 * pj_out.x > PixelUnit * pj_in.imageWidth
    /\ MirrorCall.kind = "pixel"
    /\ 2 * MirrorCall.x < PixelUnit * pj_in.imageWidth

ScaleCalled == sc_out.kind = "data"

\* C3 as stated: for every non-empty batch with finite distances every output star's
\* scaledDistance is a number in the closed interval [0, 1].
C3_Original ==
    ScaleCalled =>
        \A i \in 1..Len(sc_out.stars) :
            /\ IsNum(sc_out.stars[i].scaledDistance)
            /\ RLe(Num(0), sc_out.stars[i].scaledDistance)
            /\ RLe(sc_out.stars[i].scaledDistance, Num(1))

\* C4 as stated: the distanceRange stored in the scaling parameters is always > 0; when
\* maxDistance - frontOffset <= 0 it is volumeDepth and frontOffset is 0.
C4_Original ==
    ScaleCalled =>
        /\ RLt(Num(0), sc_out.scaling.distanceRangeLy)
        /\ ~RLt(Num(0), RSub(sc_out.scaling.maxDistanceLy,
                             frontOffsetOf(MinOf([i \in 1..Len(sc_out.stars) |->
                                                     sc_out.stars[i].distanceLy]))))
           => /\ sc_out.scaling.distanceRangeLy = sc_out.volumeDepth
              /\ sc_out.scaling.frontOffsetLy = Num(0)

\* the placement loop of handleFormSubmit has run
FormPlaced == fs_pc = "done" /\ Len(fs_placed) = Len(fs_stars) /\ Len(fs_stars) > 0

HasCsvPixel(star) == star.pixelX # Undefined /\ star.pixelY # Undefined

\* C2 as stated: a star with both a CSV pixel coordinate and a calibration entry for its
\* label is placed by handleFormSubmit at the calibration pixel.
C2_Original ==
    FormPlaced =>
        \A i \in 1..Len(fs_stars) :
            (HasCsvPixel(fs_stars[i]) /\ getCalibratedPixel(fs_stars[i].label) # Null)
            => fs_placed[i].pixel = getCalibratedPixel(fs_stars[i].label)

\* C2 amended: a star with a CSV pixel coordinate is placed by handleFormSubmit at that
\* coordinate, whether or not its label has a calibration entry; a calibration entry is
\* used only for a star without a CSV coordinate, and there it preempts the projector
\* output.
C2_CsvBeforeCalibration ==
    FormPlaced =>
        \A i \in 1..Len(fs_stars) :
            /\ HasCsvPixel(fs_stars[i])
               => fs_placed[i].pixel = Pixel(fs_stars[i].pixelX, fs_stars[i].pixelY)
            /\ (~HasCsvPixel(fs_stars[i]) /\ getCalibratedPixel(fs_stars[i].label) # Null)
               => /\ fs_placed[i].how = "calibration"
                  /\ fs_placed[i].pixel = getCalibratedPixel(fs_stars[i].label)

\* C2 witness: a submit placed a star that has a CSV pixel and a calibration entry at
\* the CSV pixel, and a star with a calibration entry, no CSV pixel and catalog
\* coordinates at the calibration pixel; the visualization data was produced.
C2_Witness ==
    /\ FormPlaced
    /\ fs_out.kind = "data"
    /\ \E i \in 1..Len(fs_stars) :
          /\ HasCsvPixel(fs_stars[i])
          /\ getCalibratedPixel(fs_stars[i].label) # Null
          /\ fs_placed[i].how = "csv"
          /\ fs_placed[i].pixel # getCalibratedPixel(fs_stars[i].label)
    /\ \E j \in 1..Len(fs_stars) :
          /\ ~HasCsvPixel(fs_stars[j])
          /\ fs_stars[j].hip \in DOMAIN fs_hipCoords
          /\ fs_placed[j].how = "calibration"

\* the responses for which lookupDistanceSIMBAD has no parallax to parse
FailedResponse(resp) == resp.kind \in {"nomatch", "fetchthrow", "textthrow"}

\* C11: a response without the parallax pattern, or a request that throws, makes
\* lookupDistanceSIMBAD return null; batchLookupSIMBAD goes on with the remaining
\* identifiers (it has called every identifier, in order, when it returns) and its
\* Map holds exactly the identifiers whose lookup returned a distance.
C11_FailedLookupSkipped ==
    /\ \A i \in 1..Len(calls) :
          /\ calls[i].hip = hipNumbers[i]
          /\ FailedResponse(calls[i].resp) => calls[i].out = Null
    /\ DOMAIN results = {calls[i].hip : i \in {j \in 1..Len(calls) : calls[j].out # Null}}
    /\ bl_pc = "done" => Len(calls) = Len(hipNumbers)

\* C11 witness: a batch of two identifiers has returned; the first request threw, the
\* second answered with a parallax, and the Map holds the second identifier only.
C11_Witness ==
    /\ bl_pc = "done"
    /\ Len(calls) = 2
    /\ calls[1].resp.kind = "fetchthrow"
    /\ calls[2].out # Null
    /\ calls[1].hip # calls[2].hip
    /\ DOMAIN results = {calls[2].hip}

\* batchLookupSIMBAD has been called and has not returned
BatchRunning == bl_pc \in {"loop", "fetch", "text", "delay"}

\* C12 as stated: whatever the remote service does, even if it never answers a
\* request, a running batchLookupSIMBAD eventually returns.
C12_Original == BatchRunning ~> (bl_pc = "done")

\* a record of the trace of a batchLookupHIP run
BatchTrace(i) == hb_in.mode = "batch" /\ i \in 1..Len(hb_trace)

\* C13 as stated: batchLookupHIP looks a number up in the local catalog first and, if it
\* is absent there, in the remote catalog; it is not found only after both have failed.
C13_Original ==
    \A i \in 1..Len(hb_trace) :
        BatchTrace(i) =>
            /\ hb_trace[i].seen[1] = "local"
            /\ hb_trace[i].out = Null
               => Len(hb_trace[i].seen) >= 2 /\ hb_trace[i].seen[2] = "remote"

\* C13 amended: batchLookupHIP looks a number up in the loaded catalog file first and,
\* if it is absent there, in the built-in minimal catalog (in the minimal catalog only
\* when the file could not be loaded); it never asks the remote catalog, and a number
\* is not found only after the minimal catalog has failed too.
C13_LocalThenMinimal ==
    \A i \in 1..Len(hb_trace) :
        BatchTrace(i) =>
            LET t == hb_trace[i]
            IN  /\ t.hip = hb_in.hipNumbers[i]
                /\ t.seen \in {<<"local">>, <<"local", "minimal">>, <<"minimal">>}
                /\ t.seen = <<"local">> => t.out # Null /\ t.out = catalogEntry(hipCatalog, t.hip)
                /\ t.seen = <<"local", "minimal">> => catalogEntry(hipCatalog, t.hip) = Null
                /\ t.seen = <<"minimal">> => hipCatalog = Null
                /\ t.out = Null <=> (/\ t.seen[Len(t.seen)] = "minimal"
                                     /\ t.hip \notin DOMAIN getMinimalHIPCatalog)
                /\ t.out # Null => t.hip \in DOMAIN hb_results

\* C13 witness: a batch has returned; one number absent from the loaded catalog was
\* found in the minimal catalog, another was in neither and is not in the Map.
C13_Witness ==
    /\ hb_in.mode = "batch"
    /\ hb_pc = "done"
    /\ hipCatalog # Null
    /\ \E i, j \in 1..Len(hb_trace) :
          /\ hb_trace[i].seen = <<"local", "minimal">>
          /\ hb_trace[i].out # Null
          /\ hb_trace[j].seen = <<"local", "minimal">>
          /\ hb_trace[j].out = Null
          /\ hb_trace[j].hip \notin DOMAIN hb_results

\* the stars the placement loop left with a continue statement
Skipped(i) == fs_placed[i].how \in {"nocoords", "noscale", "nocenter"}

\* C14 as stated: no star stops the processing of the others, and every star collected
\* from the form ends in starsWithCoords or in starsOutsideBounds.
C14_Original ==
    FormPlaced =>
        Len(fs_lists.starsWithCoords) + Len(fs_lists.starsOutsideBounds) = Len(fs_stars)

\* C14 amended: no star stops the processing of the others; a star for which
\* raDecToPixel returned null ends in starsOutsideBounds, a star with a pixel in
\* starsWithCoords, and a star without catalog coordinates, scale or (non-zero) center
\* is skipped and ends in neither list.
C14_SkippedInNeitherList ==
    FormPlaced =>
        LET outside == {i \in 1..Len(fs_stars) : fs_placed[i].how = "outside"}
            placed == {i \in 1..Len(fs_stars) : fs_placed[i].pixel # Null}
            skipped == {i \in 1..Len(fs_stars) : Skipped(i)}
        IN  /\ outside \cup placed \cup skipped = 1..Len(fs_stars)
            /\ Len(fs_lists.starsWithCoords) = Cardinality(placed)
            /\ Len(fs_lists.starsOutsideBounds) = Cardinality(outside)
            /\ \A k \in 1..Len(fs_lists.starsOutsideBounds) :
                  \E i \in outside : fs_stars[i].label = fs_lists.starsOutsideBounds[k]
            /\ \A k \in 1..Len(fs_lists.starsWithCoords) :
                  \E i \in placed :
                      /\ fs_stars[i].label = fs_lists.starsWithCoords[k].label
                      /\ fs_placed[i].pixel = Pixel(fs_lists.starsWithCoords[k].pixelX,
                                                    fs_lists.starsWithCoords[k].pixelY)

\* C14 witness: of two stars the first had no catalog coordinates and was skipped, the
\* second was processed after it and projected outside the image.
C14_Witness ==
    /\ FormPlaced
    /\ Len(fs_stars) = 2
    /\ fs_placed[1].how = "nocoords"
    /\ fs_placed[2].how = "outside"
    /\ fs_lists.starsOutsideBounds = <<fs_stars[2].label>>
    /\ fs_lists.starsWithCoords = <<>>

\* C15: handleFormSubmit hands a batch to initVisualization only if at least one star was
\* placed; with no star placed it alerts and generates nothing; with at least one star
\* placed, whatever happened to the others, it generates the data for the placed stars
\* and hands them to the installed initVisualization.
C15_VisualizedIffPlaced ==
    /\ fs_out.kind = "data"
       => /\ FormPlaced
          /\ Len(fs_lists.starsWithCoords) >= 1
          /\ Len(fs_out.data.stars) = Len(fs_lists.starsWithCoords)
          /\ fs_out.shown = fs_form.window.initVisualization
    /\ (FormPlaced /\ Len(fs_lists.starsWithCoords) = 0)
       => fs_out = Alert("Could not find pixel coordinates for any stars")
    /\ (FormPlaced /\ Len(fs_lists.starsWithCoords) >= 1) => fs_out.kind = "data"

\* C15 witness: of two stars one was placed and one projected outside the image; the
\* data holds the placed star and was handed to initVisualization.
C15_Witness ==
    /\ FormPlaced
    /\ Len(fs_stars) = 2
    /\ Len(fs_lists.starsWithCoords) = 1
    /\ Len(fs_lists.starsOutsideBounds) = 1
    /\ fs_out.kind = "data"
    /\ fs_out.shown
    /\ Len(fs_out.data.stars) = 1

\* C16 as stated: in every batch, two stars with distanceLy(a) <= distanceLy(b) have
\* scaledDistance(a) <= scaledDistance(b).
C16_Original ==
    ScaleCalled =>
        \A a, b \in 1..Len(sc_out.stars) :
            RLe(sc_out.stars[a].distanceLy, sc_out.stars[b].distanceLy)
            => RLe(sc_out.stars[a].scaledDistance, sc_out.stars[b].scaledDistance)

\* C17 as stated: for every non-empty batch frontOffset = floor(minDistance/10)*10, a
\* multiple of 10 with frontOffset <= minDistance < frontOffset + 10, and the star of a
\* single-star batch has its scaledDistance in [0, 1].
C17_Original ==
    ScaleCalled =>
        LET minDistance == MinOf([i \in 1..Len(sc_out.stars) |-> sc_out.stars[i].distanceLy])
            frontOffset == sc_out.scaling.frontOffsetLy
        IN  /\ frontOffset = frontOffsetOf(minDistance)
            /\ frontOffset.d = 1 /\ frontOffset.n % 10 = 0
            /\ RLe(frontOffset, minDistance)
            /\ RLt(minDistance, RAdd(frontOffset, Num(10)))
            /\ Len(sc_out.stars) = 1
               => /\ RLe(Num(0), sc_out.stars[1].scaledDistance)
                  /\ RLe(sc_out.stars[1].scaledDistance, Num(1))

C19_Original ==
    (se_pc = "ready" /\ se_pending = <<>>) => (1 <= se_entries /\ se_entries <= 27)

\* the record for a distance of pc parsecs given directly by the catalog
DirectDistance(pc) ==
    [kind |-> "dist", distanceLy |-> RMul(pc, LyPerPc), distancePc |-> pc,
     parallax |-> RDiv(Num(1), pc)]

\* what C20 says lookupDistanceCatalog returns for an entry, given the test that tells
\* whether the entry has a direct distance
CatalogCases(entry, hasDistance) ==
    IF ~entry.present THEN Null
    ELSE IF RLt(Num(0), entry.parallax) THEN ExpectedDistance(entry.parallax)
    ELSE IF hasDistance THEN DirectDistance(entry.distancePc)
    ELSE Null

\* C20 as stated: parallax > 0 gives the distance 1/(parallax/1000); else an entry that
\* has a direct distance in parsecs gets that distance as-is with parallax 1/distancePc;
\* else, and for a number not in the catalog, the result is null.
C20_Original ==
    cat_out # NotCalled
    => cat_out = CatalogCases(cat_in.entry,
                              cat_in.entry.present /\ cat_in.entry.distancePc # Undefined)

\* C20 amended: as stated, where an entry has a direct distance when its distancePc is
\* present and not zero; a distancePc of 0 is treated as absent and gives null.
C20_CatalogCases ==
    cat_out # NotCalled
    => cat_out = CatalogCases(cat_in.entry,
                              cat_in.entry.present /\ Truthy(cat_in.entry.distancePc))

\* C20 witness: an entry without a positive parallax and with a distance of 40 pc was
\* resolved to 40 pc and a parallax of 1/40 arcsecond.
C20_Witness ==
    /\ cat_out # NotCalled
    /\ cat_in.entry.present
    /\ ~RLt(Num(0), cat_in.entry.parallax)
    /\ cat_in.entry.distancePc = Num(40)
    /\ cat_out.kind = "dist"
    /\ cat_out.distancePc = Num(40)
    /\ cat_out.parallax = Rat(1, 40)

\* The getCalibratedPixel calls of the history, and the setCalibratedPixel calls for
\* a label made before call i.
CalGets == {i \in 1..Len(cal_calls) : cal_calls[i].op = "get"}

SetsBefore(label, i) ==
    {k \in 1..(i - 1) : cal_calls[k].op = "set" /\ cal_calls[k].label = label}

LastSetBefore(label, i) ==
    CHOOSE k \in SetsBefore(label, i) : \A m \in SetsBefore(label, i) : m <= k

\* C21: setCalibratedPixel changes only the entry of its label and getCalibratedPixel
\* changes nothing: two getCalibratedPixel calls for a label with no
\* setCalibratedPixel for that label between them return the same value, and a call
\* returns the pixel of the most recent setCalibratedPixel for its label, or the
\* initial table entry when there was none.
C21_Original ==
    cal_pc = "on" =>
        /\ \A i, j \in CalGets :
               ( /\ i < j
                 /\ cal_calls[i].label = cal_calls[j].label
                 /\ SetsBefore(cal_calls[i].label, j) \subseteq 1..i )
               => cal_calls[j].value = cal_calls[i].value
        /\ \A i \in CalGets :
               LET l == cal_calls[i].label
               IN  IF SetsBefore(l, i) # {}
                   THEN cal_calls[i].value = cal_calls[LastSetBefore(l, i)].value
                   ELSE l \in DOMAIN CalibrationTable
                        => cal_calls[i].value = CalibrationTable[l]

\* A lookupHIPFromSIMBAD call has returned after a response whose two coordinate
\* lines matched.
RemoteParsed ==
    /\ hb_pc = "done"
    /\ hb_in.mode = "single"
    /\ hb_text # NotCalled
    /\ hb_text.kind = "match"

\* The sign the Dec line carries.
DecLineSign(text) == IF text.dec[1][1] = "-" THEN Num(-1) ELSE Num(1)

\* C22: for a response with the lines RA(ICRS) : H M S and Dec(ICRS) : +-D M S,
\* lookupHIPFromSIMBAD returns ra = (H + M/60 + S/3600)*15 and
\* dec = sign*(D + M/60 + S/3600), sign being -1 exactly when the Dec line carries a
\* minus sign, D = 0 included.
C22_Original ==
    RemoteParsed =>
        LET out == hb_trace[Len(hb_trace)].out
            H == parseInt10(hb_text.ra[1])
            D == MathAbs(parseInt10(hb_text.dec[1]))
        IN  /\ out # Null
            /\ out.ra = RMul(sexagesimal(H, parseInt10(hb_text.ra[2]),
                                         parseFloat(hb_text.ra[3])), Num(15))
            /\ out.dec = RMul(DecLineSign(hb_text),
                              sexagesimal(D, parseInt10(hb_text.dec[2]),
                                          parseFloat(hb_text.dec[3])))

\* C23: raDecToPixel returns null for every position 90 degrees or more from the
\* frame center, that is, whenever the projection denominator is <= 0.
C23_Original ==
    (ProjCalled /\ pj_aux.denominator <= 0) => pj_out = Null

\* Every star of the submitted form carries explicit pixel coordinates.
AllExplicit == Len(fs_stars) > 0 /\ \A i \in 1..Len(fs_stars) : HasCsvPixel(fs_stars[i])

CenterAlerts ==
    { Alert("center coordinate fields are not available"),
      Alert("please enter valid center coordinates") }

\* C24: when every star of the form carries explicit pixel coordinates, 0 included,
\* handleFormSubmit makes no catalog lookup, does not require or validate the center
\* coordinates, and places each star at exactly its supplied pixel.
C24_Original ==
    AllExplicit =>
        /\ fs_pc # "lookup"
        /\ fs_out \notin CenterAlerts
        /\ FormPlaced =>
               \A i \in 1..Len(fs_stars) :
                   fs_placed[i].pixel = Pixel(fs_stars[i].pixelX, fs_stars[i].pixelY)

\* Star i of the submitted form reached raDecToPixel.
Projected(i) == fs_placed[i].how \in {"projected", "outside"}

\* C25: a catalog right ascension in degrees in [0, 360), one in [0, 24) included,
\* is passed unchanged to raDecToPixel.
C25_Original ==
    FormPlaced =>
        \A i \in 1..Len(fs_stars) :
            Projected(i) => fs_placed[i].ra = fs_hipCoords[fs_stars[i].hip].ra

\* Star i needs projection and the catalog has coordinates for it.
NeedsProjection(i) ==
    /\ ~HasCsvPixel(fs_stars[i])
    /\ getCalibratedPixel(fs_stars[i].label) = Null
    /\ fs_stars[i].hip \in DOMAIN fs_hipCoords

\* C26: with a center the validation accepted, centerRA = 0 or centerDec = 0
\* included, a star that needs projection and has catalog coordinates and a scale is
\* passed to raDecToPixel.
C26_Original ==
    FormPlaced =>
        \A i \in 1..Len(fs_stars) : NeedsProjection(i) => Projected(i)

\* The last two files imported before the submit computed its scale: the first gave a
\* pixel scale, the second gave none.
ScaleThenNone ==
    /\ fs_scale # NotCalled
    /\ fs_scale.imports >= 2
    /\ given(se_frames[fs_scale.imports - 1].pixelScale)
    /\ ~given(se_frames[fs_scale.imports].pixelScale)

\* The scale from a field of view for the image of the submit.
FovScale(fovWidthDeg, fovHeightDeg) ==
    RDiv(RAdd(calculateScale(fovWidthDeg, Num(fs_scale.imageWidth)),
              calculateScale(fovHeightDeg, Num(fs_scale.imageHeight))), Num(2))

\* C27: after a CSV with a pixel scale and then a CSV without one have been imported,
\* the scale of the next handleFormSubmit comes from the field of view of the second
\* file, or the default one, not from the pixel scale of the first file.
C27_Original ==
    ScaleThenNone =>
        LET second == se_frames[fs_scale.imports]
        IN  fs_scale.scale =
                IF given(second.fovWidthDeg) /\ given(second.fovHeightDeg)
                THEN FovScale(second.fovWidthDeg, second.fovHeightDeg)
                ELSE FovScale(DefaultFovWidthDeg, DefaultFovHeightDeg)

\* Every call has returned after loading its image, and data has been supplied.
ViewSettled ==
    /\ vz_pc = "on"
    /\ starData # NoData
    /\ \A c \in 1..Len(vz_calls) : vz_calls[c].pc = "done"

\* C28: whatever the interleaving of initVisualization calls and loadStarData, the
\* scene ends with exactly one front image plane, built from the data supplied last,
\* and at most one animation loop runs.
C28_Original ==
    /\ ViewSettled =>
           /\ Cardinality(vz_scene) = 1
           /\ \A p \in vz_scene : p.data = starData
    /\ vz_loops <= 1

\* A star of the converter's output has a magnitude.
HasMagnitude(star) == IsNum(star.magnitude)

\* C29: convertData outputs the stars brightest first: non-decreasing magnitude over
\* the stars that have one, magnitude 0 or below before every positive magnitude, and
\* the stars without a magnitude last.
C29_Original ==
    (sc_in.kind = "conv" /\ sc_out.kind = "data") =>
        \A i, j \in 1..Len(sc_out.stars) :
            i < j =>
                /\ (HasMagnitude(sc_out.stars[i]) /\ HasMagnitude(sc_out.stars[j]))
                   => RLe(sc_out.stars[i].magnitude, sc_out.stars[j].magnitude)
                /\ HasMagnitude(sc_out.stars[j]) => HasMagnitude(sc_out.stars[i])

\* the invocations of func so far
Invocations == SelectSeq(db_log, LAMBDA e : e.kind = "invoke")

\* The calls that end a burst: the next call, if any, follows by the wait or more.
BurstEnds ==
    {j \in 1..Len(DebouncedCalls) :
        \/ j = Len(DebouncedCalls)
        \/ DebouncedCalls[j + 1].at - DebouncedCalls[j].at >= DebounceWait}

\* the call that ends the k-th burst
NthBurstEnd(k) == CHOOSE j \in BurstEnds : Cardinality({i \in BurstEnds : i <= j}) = k

====
